---- MODULE Spec2Model ----
(***************************************************************************)
(* Model of the chunked XML stream parser of pb_xml_util                   *)
(* (src/google/protobuf/util/internal/xml_stream_parser.cc).               *)
(*                                                                         *)
(* Bytes are integers 0..255 and byte strings are sequences of them, so    *)
(* the lexical classes are the ranges the code tests.  A parser object is  *)
(* a record holding the fields of XmlStreamParser; every C++ method is an  *)
(* operator from such a record to such a record whose field res holds the  *)
(* util::Status the method returned.  The ObjectWriter the parser drives   *)
(* is the field ow, the sequence of calls made on it.                      *)
(*                                                                         *)
(* Not modelled: the 20-byte context and caret line that ReportFailure     *)
(* appends to a message (a status is its message and, for "Message too     *)
(* deep", the tag), and the zero-copy aliasing of key_/parsed_ (values     *)
(* are copied).                                                            *)
(***************************************************************************)
EXTENDS Integers, Sequences, FiniteSets, TLC

(***************************************************************************)
(* Bytes                                                                   *)
(***************************************************************************)
\* The ASCII code of each character the model's inputs are written in.
Ord ==
  ("<" :> 60) @@ (">" :> 62) @@ ("/" :> 47) @@ ("?" :> 63) @@ ("!" :> 33) @@
  (" " :> 32) @@ ("LF" :> 10) @@ ("=" :> 61) @@ ("\"" :> 34) @@ ("'" :> 39) @@
  ("\\" :> 92) @@ ("-" :> 45) @@ ("&" :> 38) @@ ("_" :> 95) @@ (";" :> 59) @@
  ("#" :> 35) @@ ("*" :> 42) @@ ("0" :> 48) @@ ("1" :> 49) @@ ("2" :> 50) @@
  ("a" :> 97) @@ ("b" :> 98) @@ ("c" :> 99) @@ ("d" :> 100) @@ ("e" :> 101) @@
  ("f" :> 102) @@ ("g" :> 103) @@ ("i" :> 105) @@ ("l" :> 108) @@
  ("m" :> 109) @@ ("n" :> 110) @@ ("o" :> 111) @@ ("p" :> 112) @@
  ("q" :> 113) @@ ("r" :> 114) @@ ("s" :> 115) @@ ("t" :> 116) @@
  ("u" :> 117) @@ ("v" :> 118) @@ ("x" :> 120) @@ ("y" :> 121) @@
  ("D" :> 68) @@ ("C" :> 67) @@ ("8" :> 56) @@ ("3" :> 51)

\* The byte string of a sequence of characters.
Str(cs) == [i \in 1..Len(cs) |-> Ord[cs[i]]]

\* s without its first n bytes (StringPiece::remove_prefix / substr(n)).
Drop(s, n) == IF n >= Len(s) THEN <<>> ELSE SubSeq(s, n + 1, Len(s))

\* the first n bytes of s (StringPiece::substr(0, n)).
Take(s, n) == IF n <= 0 THEN <<>> ELSE SubSeq(s, 1, IF n > Len(s) THEN Len(s) ELSE n)

StartsWith(s, pre) == Len(s) >= Len(pre) /\ SubSeq(s, 1, Len(pre)) = pre

Top(stk) == stk[Len(stk)]

Pop(stk) == SubSeq(stk, 1, Len(stk) - 1)

ascii_isspace(c) == c \in {32, 9, 10, 11, 12, 13}

IsLetter(c) == (97 <= c /\ c <= 122) \/ (65 <= c /\ c <= 90) \/ c = 95

IsAlphanumeric(c) == IsLetter(c) \/ (48 <= c /\ c <= 57)

IsAlphanumericOrHyphen(c) == IsAlphanumeric(c) \/ c = 45

ListPrefix == Str(<<"_", "l", "i", "s", "t", "_">>)

AnonymousName == Str(<<"a", "n", "o", "n", "y", "m", "o", "u", "s">>)

RootName == Str(<<"r", "o", "o", "t">>)

IsPredefinedEntities(input) ==
  input \in { Str(<<"&", "l", "t", ";">>), Str(<<"&", "g", "t", ";">>),
              Str(<<"&", "a", "m", "p", ";">>),
              Str(<<"&", "a", "p", "o", "s", ";">>),
              Str(<<"&", "q", "u", "o", "t", ";">>) }

(***************************************************************************)
(* UTF-8                                                                   *)
(***************************************************************************)
IsTrailByte(c) == 128 <= c /\ c <= 191

\* Number of bytes the UTF-8 lead byte c announces (kUTF8LenTbl).
UTF8LenTbl(c) == IF c < 192 THEN 1 ELSE IF c < 224 THEN 2 ELSE IF c < 240 THEN 3 ELSE 4

UTF8FirstLetterNumBytes(p) == IF p = <<>> THEN 0 ELSE UTF8LenTbl(p[1])

\* Length of the well-formed character at position i of s, 0 when the bytes
\* there do not form one (an invalid lead byte or a missing trail byte).
ValidCharLen(s, i) ==
  LET c == s[i]
      trail(k) == i + k <= Len(s) /\ IsTrailByte(s[i + k])
  IN  IF c < 128 THEN 1
      ELSE IF 194 <= c /\ c <= 223 THEN (IF trail(1) THEN 2 ELSE 0)
      ELSE IF 224 <= c /\ c <= 239 THEN (IF trail(1) /\ trail(2) THEN 3 ELSE 0)
      ELSE IF 240 <= c /\ c <= 244
        THEN (IF trail(1) /\ trail(2) /\ trail(3) THEN 4 ELSE 0)
      ELSE 0

RECURSIVE SpnFrom(_, _)
SpnFrom(s, i) ==
  IF i > Len(s) THEN Len(s)
  ELSE LET n == ValidCharLen(s, i)
       IN  IF n = 0 THEN i - 1 ELSE SpnFrom(s, i + n)

\* Length of the longest structurally valid UTF-8 prefix of s.
UTF8SpnStructurallyValid(s) == SpnFrom(s, 1)

IsStructurallyValidUTF8(s) == UTF8SpnStructurallyValid(s) = Len(s)

RECURSIVE ReplaceInvalidCodePoints(_, _)
ReplaceInvalidCodePoints(str, replacement) ==
  IF str = <<>> THEN <<>>
  ELSE LET n_valid_bytes == UTF8SpnStructurallyValid(str)
       IN  IF n_valid_bytes = Len(str) THEN str
           ELSE Take(str, n_valid_bytes) \o replacement \o
                ReplaceInvalidCodePoints(Drop(str, n_valid_bytes + 1), replacement)

(***************************************************************************)
(* Lexical consumers: each returns the number of bytes it takes from the   *)
(* front of input, 0 meaning "return false".                               *)
(***************************************************************************)
RECURSIVE NameLen(_, _)
NameLen(input, len) ==
  IF len < Len(input) /\ IsAlphanumericOrHyphen(input[len + 1])
    THEN NameLen(input, len + 1)
    ELSE len

ConsumeKey(input) == IF input = <<>> \/ ~IsLetter(input[1]) THEN 0 ELSE NameLen(input, 1)

\* MatchKey that takes '-' for the first byte of a key as well.
MatchKeyOrDash(input) == input # <<>> /\ (IsLetter(input[1]) \/ input[1] = 45)

MatchKey(input) == input # <<>> /\ IsLetter(input[1])

ConsumeTagName(input) ==
  IF input = <<>> \/ ~IsLetter(input[1]) THEN 0 ELSE NameLen(input, 1)

\* The scan of ConsumeText from index len (0-based, as in the code): the
\* length of the text, or 0 when an '&' does not start the rest of the input
\* as a predefined entity.
RECURSIVE TextLen(_, _)
TextLen(input, len) ==
  IF len >= Len(input) THEN len
  ELSE IF input[len + 1] = 60 THEN len
  ELSE IF input[len + 1] = 38 /\ ~IsPredefinedEntities(Drop(input, len)) THEN 0
  ELSE TextLen(input, len + 1)

ConsumeText(input) == IF input = <<>> THEN 0 ELSE TextLen(input, 1)

(***************************************************************************)
(* util::Status                                                            *)
(***************************************************************************)
OkStatus == [code |-> "OK", msg |-> "", tag |-> <<>>]

CancelledError == [code |-> "CANCELLED", msg |-> "", tag |-> <<>>]

InvalidArgumentError(message) == [code |-> "INVALID_ARGUMENT", msg |-> message, tag |-> <<>>]

\* The process died or ran on wild memory: an outcome of undefined behaviour.
Crashed == [code |-> "CRASH", msg |-> "", tag |-> <<>>]

IsOk(status) == status.code = "OK"

IsCancelled(status) == status.code = "CANCELLED"

(***************************************************************************)
(* The parser object                                                       *)
(***************************************************************************)
kUnicodeEscapedLength == 6

kDefaultMaxRecursionDepth == 100

NoQuote == 0

\* The calls the parser makes on its ObjectWriter.
StartObjectEv(name) == [op |-> "StartObject", name |-> name, value |-> <<>>]

EndObjectEv == [op |-> "EndObject", name |-> <<>>, value |-> <<>>]

StartListEv(name) == [op |-> "StartList", name |-> name, value |-> <<>>]

EndListEv == [op |-> "EndList", name |-> <<>>, value |-> <<>>]

RenderStringEv(name, value) == [op |-> "RenderString", name |-> name, value |-> value]

\* XmlStreamParser::XmlStreamParser, followed by the option setters.  ub is
\* not a field of the class: it is the outcome that a read of the top of an
\* empty std::stack takes during the next call ("crash", or "garbage" for a
\* read that returns some unrelated value).
NewParser(coerce, max_depth) ==
  [ stack |-> <<"BEGIN_ELEMENT">>, leftover |-> <<>>, chunk_storage |-> <<>>,
    p |-> <<>>, key |-> <<>>, key_storage |-> <<>>, finishing |-> FALSE,
    seen_non_whitespace |-> FALSE, parsed |-> <<>>, parsed_storage |-> <<>>,
    string_open |-> NoQuote, coerce_to_utf8 |-> coerce,
    utf8_replacement_character |-> <<32>>, recursion_depth |-> 0,
    max_recursion_depth |-> max_depth, text |-> <<>>, tag_name |-> <<>>,
    tag_name_stack |-> <<>>, element_type_stack |-> <<>>, ow |-> <<>>,
    token |-> "UNKNOWN", res |-> OkStatus, ub |-> "crash" ]

Ok(s) == [s EXCEPT !.res = OkStatus]

Cancel(s) == [s EXCEPT !.res = CancelledError]

Push(s, type) == [s EXCEPT !.stack = Append(@, type)]

Emit(s, ev) == [s EXCEPT !.ow = Append(@, ev)]

ReportFailure(s, message) == [s EXCEPT !.res = InvalidArgumentError(message)]

\* ReportUnknown without the test of finishing_.
ReportUnknownAtOnce(s, message) ==
  IF s.p = <<>> THEN ReportFailure(s, "Unexpected end of string. " \o message)
  ELSE ReportFailure(s, message)

ReportUnknown(s, message) ==
  IF ~s.finishing THEN Cancel(s)
  ELSE IF s.p = <<>> THEN ReportFailure(s, "Unexpected end of string. " \o message)
  ELSE ReportFailure(s, message)

\* IncrementRecursionDepth with the comparison off by one.
IncrementRecursionDepthOffByOne(s, tag_name) ==
  LET s1 == [s EXCEPT !.recursion_depth = @ + 1]
  IN  IF s1.recursion_depth >= s1.max_recursion_depth
        THEN [s1 EXCEPT !.res =
               [code |-> "INVALID_ARGUMENT",
                msg |-> "Message too deep. Max recursion depth reached for tag",
                tag |-> tag_name]]
        ELSE Ok(s1)

IncrementRecursionDepth(s, tag_name) ==
  LET s1 == [s EXCEPT !.recursion_depth = @ + 1]
  IN  IF s1.recursion_depth > s1.max_recursion_depth
        THEN [s1 EXCEPT !.res =
               [code |-> "INVALID_ARGUMENT",
                msg |-> "Message too deep. Max recursion depth reached for tag",
                tag |-> tag_name]]
        ELSE Ok(s1)

Advance(s) ==
  LET n == UTF8FirstLetterNumBytes(s.p)
  IN  [s EXCEPT !.p = Drop(@, IF Len(s.p) < n THEN Len(s.p) ELSE n)]

\* SkipWhitespace() without the test for whitespace.
SkipWhitespace0SkipsAll(s) == [s EXCEPT !.p = <<>>]

\* void SkipWhitespace()
RECURSIVE SkipWhitespace0(_)
SkipWhitespace0(s) ==
  IF s.p # <<>> /\ ascii_isspace(s.p[1]) THEN SkipWhitespace0(Advance(s))
  ELSE IF s.p # <<>> THEN [s EXCEPT !.seen_non_whitespace = TRUE]
  ELSE s

\* SkipWhitespace(ParseType) that reserves no space in BEGIN_ELEMENT_MID.
SkipWhitespaceReservingNone(s, type) == SkipWhitespace0(s)

\* void SkipWhitespace(ParseType type)
RECURSIVE SkipWhitespace(_, _)
SkipWhitespace(s, type) ==
  IF s.p # <<>> /\ ascii_isspace(s.p[1])
    THEN IF type = "BEGIN_ELEMENT_MID" /\
            (Len(s.p) = 1 \/ (Len(s.p) >= 2 /\ ~ascii_isspace(s.p[2])))
           THEN [s EXCEPT !.seen_non_whitespace = TRUE]
           ELSE SkipWhitespace(Advance(s), type)
  ELSE IF s.p # <<>> THEN [s EXCEPT !.seen_non_whitespace = TRUE]
  ELSE s

\* The classification GetNextTokenType makes of the bytes at the cursor.
TokenAt(p) ==
  IF p = <<>> THEN "UNKNOWN"
  ELSE LET c == p[1]
       IN  IF c = 34 \/ c = 39 THEN "BEGIN_STRING"
           ELSE IF c = 60 THEN "OPEN_TAG"
           ELSE IF c = 62 THEN "CLOSE_TAG"
           ELSE IF c = 47 THEN "END_TAG_SLASH"
           ELSE IF c = 63 THEN "DECLARATION"
           ELSE IF c = 33 THEN "COMMENT"
           ELSE IF c = 32 THEN "ATTR_SEPARATOR"
           ELSE IF c = 61 THEN "ATTR_VALUE_SEPARATOR"
           ELSE IF MatchKey(p) THEN "BEGIN_KEY"
           ELSE "BEGIN_TEXT"

\* The token is left in the field token.
GetNextTokenType(s, type) ==
  LET s1 == SkipWhitespace(s, type)
  IN  [s1 EXCEPT !.token = TokenAt(s1.p)]

(***************************************************************************)
(* The handlers of the parse states                                        *)
(***************************************************************************)
ParseBeginElement(s, type) ==
  IF type = "OPEN_TAG" THEN Ok(Push(Advance(s), "START_TAG"))
  ELSE IF type = "UNKNOWN" THEN ReportUnknown(s, "Expected an open tag.")
  ELSE ReportFailure(s, "Expected an open tag.")

ParseBeginElementMid(s, type) ==
  IF type = "ATTR_SEPARATOR" THEN Ok(Push(Advance(s), "ATTR_KEY"))
  ELSE IF type = "CLOSE_TAG" THEN Ok(Push(Advance(s), "TEXT"))
  ELSE IF type = "UNKNOWN" THEN ReportUnknown(s, "Expected a space or a close tag.")
  ELSE ReportFailure(s, "Expected a space or a close tag.")

\* ParseText() that expects more content after the text.
ParseText0ThenContent(s) ==
  LET n == ConsumeText(s.p)
      s1 == [s EXCEPT !.text = Take(s.p, n), !.p = Drop(s.p, n)]
  IN  IF n = 0 THEN ReportFailure(s, "Invalid text.")
      ELSE IF ~s1.finishing /\ s1.p = <<>>
        THEN Cancel([s1 EXCEPT !.p = s.p])
      ELSE Ok(Push(Emit(s1, RenderStringEv(<<>>, s1.text)), "TEXT"))

\* util::Status ParseText()
ParseText0(s) ==
  LET n == ConsumeText(s.p)
      s1 == [s EXCEPT !.text = Take(s.p, n), !.p = Drop(s.p, n)]
  IN  IF n = 0 THEN ReportFailure(s, "Invalid text.")
      ELSE IF ~s1.finishing /\ s1.p = <<>>
        THEN Cancel([s1 EXCEPT !.p = s.p])
      ELSE Ok(Push(Emit(s1, RenderStringEv(<<>>, s1.text)), "END_ELEMENT"))

ParseText(s, type) ==
  IF type = "OPEN_TAG" THEN Ok(Push(Push(Advance(s), "TEXT"), "START_TAG"))
  ELSE IF type = "UNKNOWN" THEN ReportUnknown(s, "Expected an open tag.")
  ELSE ParseText0(s)

\* ParseEndElement() without Advance().
ParseEndElement0KeepsByte(s) == Ok(Push(s, "END_ELEMENT_MID"))

\* util::Status ParseEndElement()
ParseEndElement0(s) == Ok(Push(Advance(s), "END_ELEMENT_MID"))

ParseEndElement(s, type) ==
  IF type = "OPEN_TAG" THEN ParseEndElement0(s)
  ELSE IF type = "UNKNOWN" THEN ReportUnknown(s, "Expected an open tag.")
  ELSE ReportFailure(s, "Expected a open tag in end element.")

ParseBeginElementClose(s, type) ==
  IF type = "CLOSE_TAG" THEN Ok(Push(Advance(s), "TEXT"))
  ELSE IF type = "UNKNOWN" THEN ReportUnknown(s, "Expected a close tag.")
  ELSE ReportFailure(s, "Expected a close tag in begin element.")

ParseEndElementMid(s, type) ==
  IF type = "END_TAG_SLASH" THEN Ok(Push(Advance(s), "END_TAG"))
  ELSE IF type = "UNKNOWN" THEN ReportUnknown(s, "Expected a slash.")
  ELSE ReportFailure(s, "Expected an end tag slash.")

\* util::Status ParseEndElementMid(): stack_.top() is read without a check;
\* on an empty stack the read is undefined behaviour, which either kills the
\* process or yields a value that is not TEXT.
ParseEndElementMid0(s) ==
  LET s1 == Advance(s)
  IN  IF s1.stack = <<>>
        THEN IF s1.ub = "crash" THEN [s1 EXCEPT !.res = Crashed]
             ELSE Ok(Push(s1, "END_TAG"))
      ELSE IF Top(s1.stack) = "TEXT"
        THEN Ok(Push([s1 EXCEPT !.stack = Pop(@)], "END_TAG"))
      ELSE Ok(Push(s1, "END_TAG"))

ParseEndElementClose(s, type) ==
  IF type = "CLOSE_TAG" THEN Ok(Advance(s))
  ELSE IF type = "UNKNOWN" THEN ReportUnknown(s, "Expected a close tag.")
  ELSE ReportFailure(s, "Expected an close tag in end element.")

\* CloseElement without tag_name_stack_.pop().
CloseElementKeepsTag(s) ==
  LET end_list == StartsWith(s.tag_name, ListPrefix)
      tag_name == IF end_list THEN Drop(s.tag_name, 6) ELSE s.tag_name
  IN  IF s.tag_name_stack = <<>>
        THEN IF s.ub = "crash" THEN [s EXCEPT !.res = Crashed]
             ELSE ReportFailure(s, "Tag name not match.")
      ELSE IF Top(s.tag_name_stack).name = tag_name
        THEN LET s1 == IF end_list
                         THEN [Emit(s, EndListEv) EXCEPT
                                 !.element_type_stack = Pop(@)]
                         ELSE [(IF tag_name # AnonymousName
                                  THEN Emit(s, EndObjectEv) ELSE s) EXCEPT
                                 !.element_type_stack = Pop(@),
                                 !.recursion_depth = @ - 1]
             IN  Ok(Push(s1, "END_ELEMENT_CLOSE"))
      ELSE ReportFailure(s, "Tag name not match.")

\* The match test of ParseEndTag, once the close-tag name is in tag_name_.
\* tag_name_stack_.top() is read without a check; on an empty stack the read
\* is undefined behaviour, which either kills the process or yields a name
\* that does not match.
CloseElement(s) ==
  LET end_list == StartsWith(s.tag_name, ListPrefix)
      tag_name == IF end_list THEN Drop(s.tag_name, 6) ELSE s.tag_name
  IN  IF s.tag_name_stack = <<>>
        THEN IF s.ub = "crash" THEN [s EXCEPT !.res = Crashed]
             ELSE ReportFailure(s, "Tag name not match.")
      ELSE IF Top(s.tag_name_stack).name = tag_name
        THEN LET s1 == IF end_list
                         THEN [Emit(s, EndListEv) EXCEPT
                                 !.element_type_stack = Pop(@)]
                         ELSE [(IF tag_name # AnonymousName
                                  THEN Emit(s, EndObjectEv) ELSE s) EXCEPT
                                 !.element_type_stack = Pop(@),
                                 !.recursion_depth = @ - 1]
             IN  Ok(Push([s1 EXCEPT !.tag_name_stack = Pop(@)],
                         "END_ELEMENT_CLOSE"))
      ELSE ReportFailure(s, "Tag name not match.")

ParseEndTag(s, type) ==
  IF type = "BEGIN_KEY"
    THEN LET n == ConsumeTagName(s.p)
             s1 == [s EXCEPT !.tag_name = Take(s.p, n), !.p = Drop(s.p, n)]
         IN  IF n = 0 THEN ReportFailure(s, "Invalid end tag name.")
             ELSE IF ~s1.finishing /\ s1.p = <<>>
               THEN Cancel([s1 EXCEPT !.p = s.p])
             ELSE CloseElement(s1)
  ELSE IF type = "UNKNOWN" THEN ReportUnknown(s, "Expected a tag name.")
  ELSE ReportFailure(s, "Expected a tag name in end tag.")

ParseKey(s) ==
  LET n == ConsumeKey(s.p)
      s1 == [s EXCEPT !.key = Take(s.p, n), !.p = Drop(s.p, n)]
  IN  IF n = 0 THEN ReportFailure(s, "Invalid key.")
      ELSE IF ~s1.finishing /\ s1.p = <<>>
        THEN Cancel([s1 EXCEPT !.p = s.p])
      ELSE Ok([s1 EXCEPT !.key_storage = <<>>])

ParseAttrKey(s, type) ==
  IF type = "END_TAG_SLASH" THEN Ok(Push(Advance(s), "BEGIN_ELEMENT_CLOSE"))
  ELSE IF type = "BEGIN_KEY"
    THEN LET r == ParseKey(s)
         IN  IF IsOk(r.res) THEN Push(r, "ATTR_MID") ELSE r
  ELSE IF type = "UNKNOWN" THEN ReportUnknown(s, "Expected a begin key or a slash.")
  ELSE ReportFailure(s, "Expected a begin key or a slash.")

ParseAttrMid(s, type) ==
  IF type = "ATTR_VALUE_SEPARATOR" THEN Ok(Push(Advance(s), "ATTR_VALUE"))
  ELSE IF type = "UNKNOWN" THEN ReportUnknown(s, "Expected a equal mark.")
  ELSE ReportFailure(s, "Expected a equal mark.")

RECURSIVE CommentsLoop(_)
CommentsLoop(s) ==
  IF s.p = <<>>
    THEN IF ~s.finishing THEN Cancel(s)
         ELSE ReportFailure(s, "Close dash expected in comment.")
  ELSE IF s.p[1] = 45
    THEN IF Len(s.p) < 3
           THEN IF ~s.finishing THEN Cancel(s)
                ELSE ReportFailure(s, "Illegal close comment.")
         ELSE IF s.p[2] # 45 \/ s.p[3] # 62
           THEN ReportFailure(s, "Illegal close comment.")
         ELSE Ok([s EXCEPT !.p = Drop(@, 3)])
  ELSE CommentsLoop(Advance(s))

ParseComments(s) ==
  IF Len(s.p) < 2
    THEN IF ~s.finishing THEN Cancel(s)
         ELSE ReportFailure(s, "Illegal comment.")
  ELSE IF s.p[1] # 45 \/ s.p[2] # 45
    THEN ReportFailure(s, "Dash expected in comment.")
  ELSE CommentsLoop([s EXCEPT !.p = Drop(@, 2)])

RECURSIVE DeclarationLoop(_)
DeclarationLoop(s) ==
  IF s.p = <<>>
    THEN IF ~s.finishing THEN Cancel(s)
         ELSE ReportFailure(s, "Close question mark expected in comment.")
  ELSE IF s.p[1] = 63
    THEN IF Len(s.p) < 2
           THEN IF ~s.finishing THEN Cancel(s)
                ELSE ReportFailure(s, "Illegal close declaration.")
         ELSE IF s.p[2] # 62
           THEN ReportFailure(s, "Illegal close declaration.")
         ELSE Ok([s EXCEPT !.p = Drop(@, 2)])
  ELSE DeclarationLoop(Advance(s))

ParseDeclaration(s) ==
  IF Len(s.p) < 1
    THEN IF ~s.finishing THEN Cancel(s)
         ELSE ReportFailure(s, "Illegal comment.")
  ELSE IF s.p[1] # 63
    THEN ReportFailure(s, "Question mark expected in comment.")
  ELSE DeclarationLoop([s EXCEPT !.p = Drop(@, 1)])

ParseTagName(s) ==
  LET n == ConsumeTagName(s.p)
      s1 == [s EXCEPT !.tag_name = Take(s.p, n), !.p = Drop(s.p, n)]
  IN  IF n = 0 THEN ReportFailure(s, "Invalid tag name.")
      ELSE IF ~s1.finishing /\ s1.p = <<>>
        THEN Cancel([s1 EXCEPT !.p = s.p])
      ELSE Ok(s1)

\* OpenElement without the rule for "root" and for the children of a list.
OpenElementNamesAll(s) ==
  IF StartsWith(s.tag_name, ListPrefix)
    THEN LET tag_name == Drop(s.tag_name, 6)
         IN  [Emit(s, StartListEv(tag_name)) EXCEPT
                !.element_type_stack = Append(@, "LIST"),
                !.tag_name_stack = Append(@, [name |-> tag_name, is_list |-> TRUE])]
    ELSE LET tag_name == s.tag_name
             s1 == IF tag_name # AnonymousName
                     THEN Emit(s, StartObjectEv(tag_name))
                     ELSE s
             s2 == IncrementRecursionDepth(
                     [s1 EXCEPT !.element_type_stack = Append(@, "OBJECT")],
                     tag_name)
         IN  IF ~IsOk(s2.res) THEN s2
             ELSE [s2 EXCEPT !.tag_name_stack =
                               Append(@, [name |-> tag_name, is_list |-> FALSE])]

\* The part of ParseStartTagName that follows a successful ParseTagName.
OpenElement(s) ==
  IF StartsWith(s.tag_name, ListPrefix)
    THEN LET tag_name == Drop(s.tag_name, 6)
         IN  [Emit(s, StartListEv(tag_name)) EXCEPT
                !.element_type_stack = Append(@, "LIST"),
                !.tag_name_stack = Append(@, [name |-> tag_name, is_list |-> TRUE])]
    ELSE LET tag_name == s.tag_name
             parent_is_list_object ==
               IF s.tag_name_stack # <<>> THEN Top(s.tag_name_stack).is_list
               ELSE FALSE
             s1 == IF tag_name # AnonymousName
                     THEN IF tag_name = RootName \/ parent_is_list_object
                            THEN Emit(s, StartObjectEv(<<>>))
                            ELSE Emit(s, StartObjectEv(tag_name))
                     ELSE s
             s2 == IncrementRecursionDepth(
                     [s1 EXCEPT !.element_type_stack = Append(@, "OBJECT")],
                     tag_name)
         IN  IF ~IsOk(s2.res) THEN s2
             ELSE [s2 EXCEPT !.tag_name_stack =
                               Append(@, [name |-> tag_name, is_list |-> FALSE])]

\* The end of ParseStartTagName: o is the parser after the element was
\* opened.
ExpectAttributes(o) ==
  IF ~IsOk(o.res) THEN o
  ELSE Push([o EXCEPT !.tag_name = <<>>], "BEGIN_ELEMENT_MID")

\* ParseStartTagName after its call of ParseTagName, which left parser r.
AfterStartTagName(r) ==
  IF IsOk(r.res) THEN ExpectAttributes(OpenElement(r)) ELSE r

ParseStartTagName(s) == AfterStartTagName(ParseTagName(s))

ParseStartTag(s, type) ==
  IF type = "DECLARATION" THEN ParseDeclaration(s)
  ELSE IF type = "COMMENT" THEN ParseComments(s)
  ELSE IF type = "BEGIN_KEY" THEN ParseStartTagName(s)
  ELSE IF type = "END_TAG_SLASH" THEN ParseEndElementMid0(s)
  ELSE IF type = "UNKNOWN" THEN ReportUnknown(s, "Expected a tag name.")
  ELSE ReportFailure(s, "Expected a tag name.")

(***************************************************************************)
(* Quoted strings                                                          *)
(***************************************************************************)
isxdigit(c) == (48 <= c /\ c <= 57) \/ (97 <= c /\ c <= 102) \/ (65 <= c /\ c <= 70)

hex_digit_to_int(c) == (IF c > 57 THEN c + 9 ELSE c) % 16

\* The value of the four hex digits of p that start at index i.
Hex4(p, i) ==
  ((hex_digit_to_int(p[i]) * 16 + hex_digit_to_int(p[i + 1])) * 16
     + hex_digit_to_int(p[i + 2])) * 16 + hex_digit_to_int(p[i + 3])

AllHex4(p, i) == \A k \in 0..3 : isxdigit(p[i + k])

IsHighSurrogate(code) == 55296 <= code /\ code <= 56319

IsLowSurrogate(code) == 56320 <= code /\ code <= 57343

IsValidCodePoint(cp) == cp <= 1114111 /\ (cp < 55296 \/ cp > 57343)

EncodeAsUTF8Char(cp) ==
  IF cp <= 127 THEN <<cp>>
  ELSE IF cp <= 2047 THEN <<192 + (cp \div 64), 128 + (cp % 64)>>
  ELSE IF cp <= 65535
    THEN <<224 + (cp \div 4096), 128 + ((cp \div 64) % 64), 128 + (cp % 64)>>
  ELSE <<240 + ((cp \div 262144) % 8), 128 + ((cp \div 4096) % 64),
         128 + ((cp \div 64) % 64), 128 + (cp % 64)>>

\* The tail of ParseUnicodeEscape: encode code and step over the last escape.
AppendCodePoint(s, code) ==
  IF ~s.coerce_to_utf8 /\ ~IsValidCodePoint(code)
    THEN ReportFailure(s, "Invalid unicode code point.")
    ELSE Ok([s EXCEPT !.p = Drop(@, kUnicodeEscapedLength),
                      !.parsed_storage = @ \o EncodeAsUTF8Char(code)])

\* ParseUnicodeEscape that encodes each escape of a pair on its own.
ParseUnicodeEscapeNoPairs(s) ==
  IF Len(s.p) < kUnicodeEscapedLength
    THEN IF ~s.finishing THEN Cancel(s)
         ELSE ReportFailure(s, "Illegal hex string.")
  ELSE IF ~AllHex4(s.p, 3) THEN ReportFailure(s, "Invalid escape sequence.")
  ELSE Ok([s EXCEPT !.p = Drop(@, kUnicodeEscapedLength),
                    !.parsed_storage = @ \o EncodeAsUTF8Char(Hex4(s.p, 3))])

ParseUnicodeEscape(s) ==
  IF Len(s.p) < kUnicodeEscapedLength
    THEN IF ~s.finishing THEN Cancel(s)
         ELSE ReportFailure(s, "Illegal hex string.")
  ELSE IF ~AllHex4(s.p, 3) THEN ReportFailure(s, "Invalid escape sequence.")
  ELSE LET code == Hex4(s.p, 3)
       IN  IF ~IsHighSurrogate(code) THEN AppendCodePoint(s, code)
           ELSE IF Len(s.p) < 2 * kUnicodeEscapedLength
             THEN IF ~s.finishing THEN Cancel(s)
                  ELSE IF ~s.coerce_to_utf8
                    THEN ReportFailure(s, "Missing low surrogate.")
                  ELSE AppendCodePoint(s, code)
           ELSE IF s.p[kUnicodeEscapedLength + 1] = 92 /\
                   s.p[kUnicodeEscapedLength + 2] = 117
             THEN IF ~AllHex4(s.p, kUnicodeEscapedLength + 3)
                    THEN ReportFailure(s, "Invalid escape sequence.")
                  ELSE LET low_code == Hex4(s.p, kUnicodeEscapedLength + 3)
                       IN  IF IsLowSurrogate(low_code)
                             THEN AppendCodePoint(
                                    [s EXCEPT !.p = Drop(@, kUnicodeEscapedLength)],
                                    ((code % 1024) * 1024 + (low_code % 1024)) + 65536)
                           ELSE IF ~s.coerce_to_utf8
                             THEN ReportFailure(s, "Invalid low surrogate.")
                           ELSE AppendCodePoint(s, code)
           ELSE IF ~s.coerce_to_utf8
             THEN ReportFailure(s, "Missing low surrogate.")
           ELSE AppendCodePoint(s, code)

\* The character a backslash escape other than \u stands for.
EscapedChar(c) ==
  IF c = 98 THEN 8 ELSE IF c = 102 THEN 12 ELSE IF c = 110 THEN 10
  ELSE IF c = 114 THEN 13 ELSE IF c = 116 THEN 9 ELSE IF c = 118 THEN 11 ELSE c

\* The scanning loop of ParseStringHelper; pend holds the bytes between the
\* pointer last and the cursor, which are not yet copied to parsed_storage_.
RECURSIVE StringLoop(_, _)
StringLoop(s, pend) ==
  IF s.p = <<>>
    THEN LET s1 == [s EXCEPT !.parsed_storage = @ \o pend]
         IN  IF ~s1.finishing THEN Cancel(s1)
             ELSE ReportFailure([s1 EXCEPT !.string_open = NoQuote],
                                "Closing quote expected in string.")
  ELSE IF s.p[1] = 92
    THEN LET s1 == [s EXCEPT !.parsed_storage = @ \o pend]
         IN  IF Len(s1.p) = 1
               THEN IF ~s1.finishing THEN Cancel(s1)
                    ELSE ReportFailure(s1, "Closing quote expected in string.")
             ELSE IF s1.p[2] = 117
               THEN LET r == ParseUnicodeEscape(s1)
                    IN  IF ~IsOk(r.res) THEN r ELSE StringLoop(r, <<>>)
             ELSE StringLoop([s1 EXCEPT !.parsed_storage = Append(@, EscapedChar(s1.p[2])),
                                        !.p = Drop(@, 2)], <<>>)
  ELSE IF s.p[1] = s.string_open
    THEN LET s1 == IF s.parsed_storage = <<>>
                     THEN [s EXCEPT !.parsed = pend]
                     ELSE [s EXCEPT !.parsed_storage = @ \o pend,
                                    !.parsed = s.parsed_storage \o pend]
         IN  Ok(Advance([s1 EXCEPT !.string_open = NoQuote]))
  ELSE LET s1 == Advance(s)
       IN  StringLoop(s1, pend \o Take(s.p, Len(s.p) - Len(s1.p)))

ParseStringHelper(s) ==
  IF s.string_open = NoQuote
    THEN StringLoop(Advance([s EXCEPT !.string_open = s.p[1]]), <<>>)
    ELSE StringLoop(s, <<>>)

\* ParseAttrValue after its call of ParseStringHelper, which left parser r.
RenderAttr(r) ==
  IF IsOk(r.res)
    THEN Push([Emit(r, RenderStringEv(r.key, r.parsed)) EXCEPT
                 !.key = <<>>, !.parsed = <<>>,
                 !.key_storage = <<>>, !.parsed_storage = <<>>],
              "BEGIN_ELEMENT_MID")
    ELSE r

ParseAttrValue(s, type) ==
  IF type = "BEGIN_STRING" THEN RenderAttr(ParseStringHelper(s))
  ELSE IF type = "UNKNOWN"
    THEN ReportUnknown(s, "Expected a quote before attribute value.")
  ELSE ReportFailure(s, "Expected a quote before attribute value.")

(***************************************************************************)
(* The driver                                                              *)
(***************************************************************************)
\* The switch of RunParser.
Dispatch(s, type, t) ==
  CASE type = "BEGIN_ELEMENT" -> ParseBeginElement(s, t)
    [] type = "START_TAG" -> ParseStartTag(s, t)
    [] type = "BEGIN_ELEMENT_MID" -> ParseBeginElementMid(s, t)
    [] type = "ATTR_KEY" -> ParseAttrKey(s, t)
    [] type = "ATTR_MID" -> ParseAttrMid(s, t)
    [] type = "ATTR_VALUE" -> ParseAttrValue(s, t)
    [] type = "BEGIN_ELEMENT_CLOSE" -> ParseBeginElementClose(s, t)
    [] type = "TEXT" -> ParseText(s, t)
    [] type = "END_ELEMENT" -> ParseEndElement(s, t)
    [] type = "END_ELEMENT_MID" -> ParseEndElementMid(s, t)
    [] type = "END_TAG" -> ParseEndTag(s, t)
    [] type = "END_ELEMENT_CLOSE" -> ParseEndElementClose(s, t)

\* Suspend without "result = util::Status()".
SuspendKeepsCancelled(r, type) ==
  IF ~r.finishing /\ IsCancelled(r.res)
    THEN LET r1 == Push(r, type)
         IN  IF r1.key # <<>> /\ r1.key_storage = <<>>
               THEN [r1 EXCEPT !.key_storage = r1.key]
               ELSE r1
    ELSE r

\* The "if (!result.ok())" block of RunParser: r is the parser after a
\* handler of state type returned a status that is not ok.
Suspend(r, type) ==
  IF ~r.finishing /\ IsCancelled(r.res)
    THEN LET r1 == Push(r, type)
             r2 == IF r1.key # <<>> /\ r1.key_storage = <<>>
                     THEN [r1 EXCEPT !.key_storage = r1.key]
                     ELSE r1
         IN  Ok(r2)
    ELSE r

RECURSIVE RunParser(_), AfterHandler(_, _)
\* The end of an iteration of RunParser's loop: r is the parser after the
\* handler of state type returned.
AfterHandler(r, type) ==
  IF IsOk(r.res) THEN RunParser(r) ELSE Suspend(r, type)

\* The start of an iteration of RunParser's loop: s1 holds the token t read
\* for the state on top of the stack.
PopAndDispatch(s1, type) ==
  AfterHandler(Dispatch([s1 EXCEPT !.stack = Pop(@)], type, s1.token), type)

RunParser(s) ==
  IF s.stack = <<>> THEN Ok(s)
  ELSE IF s.string_open = NoQuote
    THEN PopAndDispatch(GetNextTokenType(s, Top(s.stack)), Top(s.stack))
  ELSE PopAndDispatch([s EXCEPT !.token = "BEGIN_STRING"], Top(s.stack))

\* The end of ParseChunk: r1 is the parser after RunParser and
\* SkipWhitespace.
SaveLeftover(r1) ==
  IF r1.p = <<>> THEN Ok([r1 EXCEPT !.leftover = <<>>])
  ELSE IF r1.stack = <<>>
    THEN ReportFailure(r1, "Parsing terminated before end of input.")
  ELSE Ok([r1 EXCEPT !.leftover = r1.p])

\* ParseChunk after its call of RunParser, which left parser r.
AfterChunk(r) ==
  IF ~IsOk(r.res) THEN r ELSE SaveLeftover(SkipWhitespace0(r))

ParseChunk(s, chunk) ==
  IF chunk = <<>> THEN Ok(s)
  ELSE AfterChunk(RunParser([s EXCEPT !.p = chunk, !.finishing = FALSE]))

\* StrAppend(&leftover_, chunk.substr(n)) on the parser ParseChunk left.
StashRest(r, rest) == [r EXCEPT !.leftover = @ \o rest]

\* Parse without the cut at the structurally valid UTF-8 prefix.
ParseAllBytes(s, xml) ==
  LET s1 == IF s.leftover # <<>>
              THEN [s EXCEPT !.chunk_storage = s.leftover \o xml,
                             !.leftover = s.chunk_storage]
              ELSE s
      chunk == IF s.leftover # <<>> THEN s1.chunk_storage ELSE xml
      n == Len(chunk)
  IN  IF n > 0
        THEN StashRest(ParseChunk(s1, Take(chunk, n)), Drop(chunk, n))
        ELSE Ok([s1 EXCEPT !.leftover = chunk])

Parse(s, xml) ==
  LET s1 == IF s.leftover # <<>>
              THEN [s EXCEPT !.chunk_storage = s.leftover \o xml,
                             !.leftover = s.chunk_storage]
              ELSE s
      chunk == IF s.leftover # <<>> THEN s1.chunk_storage ELSE xml
      n == UTF8SpnStructurallyValid(chunk)
  IN  IF n > 0
        THEN StashRest(ParseChunk(s1, Take(chunk, n)), Drop(chunk, n))
        ELSE Ok([s1 EXCEPT !.leftover = chunk])

\* The end of FinishParse: r1 is the parser after RunParser and
\* SkipWhitespace.
ExpectEndOfInput(r1) ==
  IF r1.p # <<>>
    THEN ReportFailure(r1, "Parsing terminated before end of input.")
    ELSE r1

\* FinishParse after its call of RunParser, which left parser r.
AfterFinish(r) ==
  IF ~IsOk(r.res) THEN r ELSE ExpectEndOfInput(SkipWhitespace0(r))

FinishParse(s) ==
  IF s.stack = <<>> /\ s.leftover = <<>> /\ s.tag_name_stack = <<>> THEN Ok(s)
  ELSE IF s.coerce_to_utf8 /\ ~IsStructurallyValidUTF8(s.leftover)
    THEN AfterFinish(RunParser(
           [s EXCEPT !.p = ReplaceInvalidCodePoints(
                             s.leftover, s.utf8_replacement_character),
                     !.finishing = TRUE]))
  ELSE IF ~IsStructurallyValidUTF8(s.leftover)
    THEN ReportFailure([s EXCEPT !.p = s.leftover],
                       "Encountered non UTF-8 code points.")
  ELSE AfterFinish(RunParser([s EXCEPT !.p = s.leftover, !.finishing = TRUE]))

(***************************************************************************)
(* Inputs                                                                  *)
(***************************************************************************)
\* "<name", "</name" and single delimiters, as byte strings.
Lt(name) == <<60>> \o name

LtSlash(name) == <<60, 47>> \o name

Gt == <<62>>

Open(name) == Lt(name) \o Gt

Close(name) == LtSlash(name) \o Gt

\* name="value"
Attr(name, value) == name \o <<61, 34>> \o value \o <<34>>

Sp == <<32>>

NameA == Str(<<"a">>)

NameB == Str(<<"b">>)

ListA == ListPrefix \o NameA

\* The name of the element at nesting level i of a nested input: a, b, c, ...
LevelName(i) == <<96 + i>>

RECURSIVE Nest(_, _)
\* Levels i..k opened and closed around each other.
Nest(i, k) ==
  IF i > k THEN <<>>
  ELSE Open(LevelName(i)) \o Nest(i + 1, k) \o Close(LevelName(i))

\* Deepest nesting among the inputs.
MaxNest == 3

\* Largest value given to max_recursion_depth_ below the default.
MaxDepthLimit == 2

NestInputs == { Nest(1, k) : k \in 1..MaxNest }

Comment == Str(<<"<", "!", "-", "-", "c", "-", "-", ">">>)

Declaration == Str(<<"<", "?", "x", "?", ">">>)

\* An element with text before a child element, and one with an attribute,
\* a child element and text after it.
TextThenChild == Open(NameA) \o Str(<<"x">>) \o Open(NameB) \o Close(NameB) \o Close(NameA)

ChildThenText ==
  Lt(NameA) \o Sp \o Attr(NameB, Str(<<"x">>)) \o Gt
    \o Open(NameB) \o Close(NameB) \o Str(<<"y">>) \o Close(NameA)

TextOrderInputs == { TextThenChild, ChildThenText }

\* A self-closing tag alone, and one with an attribute.
SelfClosingInputs ==
  { Lt(NameA) \o Sp \o <<47>> \o Gt,
    Lt(NameA) \o Sp \o Attr(NameB, Str(<<"x">>)) \o Sp \o <<47>> \o Gt }

\* The body of a comment with a "-" inside that does not start "-->".
DashCommentBody == Str(<<"-", "-", "c", "-", "d", "-", "-", ">">>)

\* An element with such a comment as its content.
DashCommentInputs ==
  { Open(NameA) \o Str(<<"<", "!">>) \o DashCommentBody \o Close(NameA) }

WellFormedInputs ==
  { Open(RootName) \o Close(RootName),
    Open(ListA) \o Close(ListA),
    Lt(RootName) \o Sp \o Attr(NameB, Str(<<"x", " ", "y">>)) \o Gt \o Close(RootName),
    Open(RootName) \o Str(<<"x", "1">>) \o Close(RootName),
    Open(ListA) \o Open(NameA) \o Close(NameA)
      \o Open(AnonymousName) \o Str(<<"1">>) \o Close(AnonymousName) \o Close(ListA),
    Lt(NameA) \o Sp \o Attr(NameB, Str(<<"x">>)) \o Sp \o <<47>> \o Gt \o Close(NameA),
    Lt(NameA) \o Sp \o Sp \o Attr(NameB, <<>>) \o Sp \o Attr(Str(<<"c">>), Str(<<"y">>))
      \o Gt \o Sp \o Str(<<"t", " ", "u">>) \o LtSlash(NameA) \o Sp \o Gt \o Sp,
    Lt(NameA) \o Sp \o Attr(NameB, <<195, 169>>) \o Gt \o <<195, 169>> \o Close(NameA) }

\* Inputs whose close tag differs from the open tag it answers.
MismatchInputs ==
  { Open(RootName) \o Close(NameB),
    Open(ListA) \o Close(ListPrefix \o NameB),
    Open(NameA) \o Open(NameB) \o Close(NameA) \o Close(NameB),
    Open(NameA) \o Close(ListA),
    Open(ListA) \o Close(NameA),
    Open(ListPrefix \o AnonymousName) \o Close(AnonymousName) }

\* Inputs with a comment or a declaration.
MarkupInputs ==
  { Comment \o Open(NameA) \o Close(NameA),
    Open(NameA) \o Comment \o Close(NameA),
    Declaration \o Open(NameA) \o Close(NameA),
    Open(NameA) \o Declaration \o Close(NameA),
    Open(NameA) \o Close(NameA) \o Declaration }

\* Inputs with a byte that is not part of a well-formed UTF-8 character.
NonUtf8Inputs ==
  { Lt(NameA) \o Sp \o Attr(NameB, <<255>>) \o Gt \o Close(NameA),
    Open(NameA) \o <<120, 255>> \o Close(NameA),
    Open(NameA) \o Close(NameA) \o <<255>>,
    Open(NameA) \o Close(NameA) \o <<120, 255>>,
    Open(NameA) \o Close(NameA) \o <<255, 120>>,
    <<60, 60, 255>>,
    <<195, 60>> \o NameA \o Gt \o Close(NameA) }

MalformedInputs ==
  { Lt(NameA) \o <<32, 10>> \o Attr(NameB, Str(<<"x">>)) \o Gt \o Close(NameA),
    Open(NameA) \o Close(NameA) \o Str(<<"x">>),
    Open(NameA) \o Close(NameA) \o Close(NameA),
    Lt(RootName) \o Sp \o Attr(Str(<<"0">>), Str(<<"x">>)) \o Gt \o Close(RootName),
    Lt(NameA) \o Sp \o Str(<<"b", "=", "\"", "x", ">">>) \o Close(NameA),
    Lt(NameA) \o Sp \o Str(<<"b", "=", "'", "x", "\\", "n", "\\", "'", ">">>),
    Open(NameA) \o Str(<<"x", "&", "l", "t", ";">>) \o Close(NameA),
    Open(NameA) \o Str(<<"*", "&", "#">>) \o Close(NameA),
    Open(NameA) \o Open(Str(<<"0">>)),
    Close(NameA) }

EscapeInputs ==
  { Lt(NameA) \o Sp \o Attr(NameB, Str(<<"\\", "t", "\\", "u", "0", "0", "e", "3", "'">>))
      \o Gt \o Close(NameA),
    Lt(NameA) \o Sp \o Attr(NameB, Str(<<"\\", "u", "D", "8", "3", "D",
                                         "\\", "u", "D", "C", "1", "D">>))
      \o Gt \o Close(NameA),
    Lt(NameA) \o Sp \o Attr(NameB, Str(<<"\\", "u", "D", "8", "3", "D">>))
      \o Gt \o Close(NameA) }

\* A list whose name is the list prefix alone.
UnnamedListInput == Open(ListPrefix) \o Close(ListPrefix)

Amp == <<38>>

\* The text nodes with a predefined entity reference, at the start, in the
\* middle and at the end of the text.
EntityTexts ==
  { Amp \o Str(<<"a", "m", "p", ";", "y">>),
    Str(<<"x">>) \o Amp \o Str(<<"l", "t", ";">>),
    Str(<<"x">>) \o Amp \o Str(<<"g", "t", ";", "y">>) }

\* The text nodes with an "&" that starts no predefined entity reference.
BadEntityTexts ==
  { Amp \o Str(<<"#">>),
    Str(<<"*">>) \o Amp \o Str(<<"#">>),
    Str(<<"x">>) \o Amp }

\* An element with the text node text.
TextElement(text) == Open(NameA) \o text \o Close(NameA)

EntityInputs == { TextElement(t) : t \in EntityTexts \cup BadEntityTexts }

\* A complete top-level element.
PlainElement == Open(NameA) \o Close(NameA)

\* Bytes that follow the top-level element.
Trails ==
  { Str(<<"x">>), Close(NameA), Declaration, <<32, 10>>, <<32>> \o Str(<<"x">>),
    <<255>>, <<120, 255>>, <<255, 120>>, <<195, 169>> }

TrailInputs == { PlainElement \o t : t \in Trails }

\* The escape \uXXXX of the UTF-16 code unit code, in upper-case hex digits.
HexDigit(d) == IF d < 10 THEN 48 + d ELSE 55 + d

UEscape(code) ==
  <<92, 117, HexDigit(code \div 4096), HexDigit((code \div 256) % 16),
    HexDigit((code \div 16) % 16), HexDigit(code % 16)>>

\* High surrogates D83D and DBFF, low surrogates DC1D and DC00, and the
\* code units 0041 and D83D that are no low surrogates.
HighSurrogates == {55357, 56319}

LowSurrogates == {56349, 56320}

NoLowSurrogates == {65, 55357}

\* An element whose attribute b has the quoted value value.
AttrElement(value) == Lt(NameA) \o Sp \o Attr(NameB, value) \o Gt \o Close(NameA)

PairInputs ==
  { AttrElement(UEscape(h) \o UEscape(l)) : h \in HighSurrogates, l \in LowSurrogates }

LoneHighInputs ==
  { AttrElement(UEscape(h)) : h \in HighSurrogates }
    \cup { AttrElement(UEscape(h) \o Str(<<"x">>)) : h \in HighSurrogates }

BadLowInputs ==
  { AttrElement(UEscape(h) \o UEscape(c)) : h \in HighSurrogates, c \in NoLowSurrogates }

\* First bytes no identifier begins with: a digit, '-' and the two quotes.
BadFirstBytes == {48, 45, 34, 39}

\* <a><?b>, where ? is a byte no tag name begins with.
BadTagNameInputs ==
  { Lt(<<c>> \o NameB) \o Gt \o Close(NameA) : c \in BadFirstBytes }
    \cup { Open(NameA) \o Lt(<<c>> \o NameB) \o Gt : c \in BadFirstBytes }

\* <a ?b="x"></a>, where ? is a byte no attribute key begins with.
BadAttrKeyInputs ==
  { Lt(NameA) \o Sp \o Attr(<<c>> \o NameB, Str(<<"x">>)) \o Gt \o Close(NameA) :
      c \in BadFirstBytes }

SurrogateInputs == PairInputs \cup LoneHighInputs \cup BadLowInputs

Inputs ==
  NestInputs \cup WellFormedInputs \cup MismatchInputs \cup MarkupInputs
    \cup NonUtf8Inputs \cup MalformedInputs \cup EscapeInputs
    \cup {UnnamedListInput} \cup EntityInputs \cup TrailInputs
    \cup SurrogateInputs \cup BadTagNameInputs \cup BadAttrKeyInputs
    \cup DashCommentInputs \cup SelfClosingInputs \cup TextOrderInputs

(***************************************************************************)
(* XmlObjectWriter: the object is a record; element is the chain of open   *)
(* Elements, the root Element first and element_ last.                     *)
(***************************************************************************)
Element(is_xml_object, is_xml_list, name) ==
  [ name |-> name, is_xml_object |-> is_xml_object, is_xml_list |-> is_xml_list,
    has_child |-> FALSE, has_text |-> FALSE, has_attribute |-> FALSE,
    list_child_needs_end_tag |-> FALSE, anonymous |-> FALSE ]

XmlObjectWriter(indent_string) ==
  [ element |-> <<Element(FALSE, FALSE, <<>>)>>, stream |-> <<>>,
    indent_string |-> indent_string, tag_needs_closed |-> FALSE,
    start_element |-> FALSE ]

\* Element* element()
element(w) == Top(w.element)

\* BaseElement::is_root(): the Element has no parent.
is_root(w) == Len(w.element) = 1

\* BaseElement::level(): the number of ancestors.
level(w) == Len(w.element) - 1

WriteRawString(w, s) == [w EXCEPT !.stream = @ \o s]

WriteChar(w, c) == WriteRawString(w, <<c>>)

\* JsonEscaping::Escape: '"' and '\' get a backslash, '<' and '>' become
\* \u003c and \u003e, any other printable ASCII byte is copied.
EscapeByte(c) ==
  IF c = 34 THEN <<92, 34>>
  ELSE IF c = 92 THEN <<92, 92>>
  ELSE IF c = 60 THEN <<92, 117, 48, 48, 51, 99>>
  ELSE IF c = 62 THEN <<92, 117, 48, 48, 51, 101>>
  ELSE <<c>>

RECURSIVE Escape(_)
Escape(value) ==
  IF value = <<>> THEN <<>> ELSE EscapeByte(value[1]) \o Escape(Drop(value, 1))

\* indent_string_ written n times.
RECURSIVE Indentation(_, _)
Indentation(indent_string, n) ==
  IF n <= 0 THEN <<>> ELSE indent_string \o Indentation(indent_string, n - 1)

\* NewLine that takes no level off for pop.
NewLineAtLevel(w, pop) ==
  IF w.indent_string = <<>> THEN w
  ELSE WriteRawString(w, <<10>> \o Indentation(w.indent_string, level(w)))

\* void NewLine(bool pop = false)
NewLine(w, pop) ==
  IF w.indent_string = <<>> THEN w
  ELSE WriteRawString(w, <<10>> \o
         Indentation(w.indent_string, IF pop THEN level(w) - 1 ELSE level(w)))

\* if (tag_needs_closed_) { WriteChar('>'); tag_needs_closed_ = false; }
CloseOpenTag(w) ==
  IF w.tag_needs_closed THEN [WriteChar(w, 62) EXCEPT !.tag_needs_closed = FALSE]
  ELSE w

\* The line break WriteCloseTag and WritePrefix write before a tag;
\* WriteCloseTag writes none after an anonymous child (but_anonymous).
BreakLine(w, but_anonymous) ==
  IF is_root(w) THEN w
  ELSE IF w.start_element
    THEN [NewLine(w, FALSE) EXCEPT !.start_element = FALSE]
  ELSE IF element(w).has_child /\ ~(but_anonymous /\ element(w).anonymous)
    THEN NewLine(w, TRUE)
  ELSE w

\* void WriteCloseTag()
WriteCloseTag(w) == BreakLine(CloseOpenTag(w), TRUE)

\* WritePrefix(name, true) in a list: the scalar gets an <anonymous element.
OpenAnonymous(w) ==
  IF w.element # <<>> /\ element(w).is_xml_list
    THEN [WriteRawString(WriteChar(NewLine(w, FALSE), 60), AnonymousName) EXCEPT
            !.element[Len(w.element)].anonymous = TRUE,
            !.element[Len(w.element)].has_child = TRUE,
            !.element[Len(w.element)].list_child_needs_end_tag = TRUE,
            !.tag_needs_closed = TRUE]
  ELSE w

\* WritePrefix(name, true): ' name=' for an attribute, '>' before a text.
WriteName(w, name) ==
  IF name # <<>> THEN WriteChar(WriteRawString(WriteChar(w, 32), Escape(name)), 61)
  ELSE [WriteChar(w, 62) EXCEPT !.tag_needs_closed = FALSE]

\* void WritePrefix(StringPiece name, bool render)
WritePrefix(w, name, render) ==
  IF render THEN WriteName(OpenAnonymous(w), name)
  ELSE CloseOpenTag(BreakLine(CloseOpenTag(w), FALSE))

\* WriteSuffix after its WriteCloseTag: the end tag of a list's child.
CloseListChild(w) ==
  IF element(w).anonymous
    THEN [WriteChar(WriteRawString(WriteRawString(w, <<60, 47>>), AnonymousName), 62)
            EXCEPT !.element[Len(w.element)].anonymous = FALSE,
                   !.element[Len(w.element)].list_child_needs_end_tag = FALSE]
  ELSE [WriteChar(WriteRawString(WriteRawString(w, <<60, 47>>), element(w).name), 62)
          EXCEPT !.element[Len(w.element)].list_child_needs_end_tag = FALSE]

\* void WriteSuffix()
WriteSuffix(w) ==
  IF w.element # <<>> /\ element(w).is_xml_list /\
     element(w).list_child_needs_end_tag
    THEN CloseListChild(WriteCloseTag(w))
  ELSE w

\* The Element constructor marks the parent as having a child.
PushElement(w, e) ==
  [w EXCEPT !.element = Append([@ EXCEPT ![Len(@)].has_child = TRUE], e)]

PushArray(w, name) == PushElement(w, Element(FALSE, TRUE, name))

PushObject(w, name) == PushElement(w, Element(TRUE, FALSE, name))

\* void Pop()
PopElement(w) == [w EXCEPT !.element = Pop(@)]

\* TagNameOf without the name of the enclosing list.
TagNameOfRootOnly(w, name) ==
  IF name # <<>> THEN name
  ELSE IF is_root(w) THEN RootName
  ELSE <<>>

\* The tag StartObject writes for name.
TagNameOf(w, name) ==
  IF name # <<>> THEN name
  ELSE IF is_root(w) THEN RootName
  ELSE IF element(w).is_xml_list THEN element(w).name
  ELSE <<>>

\* StartObject from its WritePrefix on.
OpenObject(w, tag_name) ==
  PushObject(
    [WriteRawString(WriteChar(WritePrefix(w, tag_name, FALSE), 60), tag_name)
       EXCEPT !.tag_needs_closed = TRUE],
    tag_name)

\* XmlObjectWriter* StartObject(StringPiece name)
StartObject(w, name) ==
  OpenObject([w EXCEPT !.element[Len(w.element)].has_child = FALSE,
                       !.element[Len(w.element)].has_text = FALSE,
                       !.element[Len(w.element)].has_attribute = FALSE,
                       !.start_element = TRUE],
             TagNameOf(w, name))

\* </tag_name>, unless the name is empty.
WriteEndTag(w, tag_name) ==
  IF tag_name # <<>>
    THEN WriteChar(WriteRawString(WriteRawString(w, <<60, 47>>), tag_name), 62)
  ELSE w

\* The end of EndObject and EndList: a line break after the outermost element.
EndOfRoot(w) == IF w.element # <<>> /\ is_root(w) THEN NewLine(w, FALSE) ELSE w

\* XmlObjectWriter* EndObject()
EndObject(w) ==
  EndOfRoot(WriteSuffix(PopElement(
    WriteEndTag(WriteCloseTag([w EXCEPT !.start_element = FALSE]),
                element(w).name))))

\* XmlObjectWriter* StartList(StringPiece name)
StartList(w, name) ==
  PushArray(
    WriteChar(
      WriteRawString(
        WriteRawString(WritePrefix([w EXCEPT !.start_element = TRUE], name, FALSE),
                       <<60>> \o ListPrefix),
        name),
      62),
    name)

\* XmlObjectWriter* EndList()
EndList(w) ==
  EndOfRoot(WriteSuffix(PopElement(
    WriteChar(
      WriteRawString(
        WriteRawString(WriteCloseTag([w EXCEPT !.start_element = FALSE]),
                       <<60, 47>> \o ListPrefix),
        element(w).name),
      62))))

\* void SetHasTextOrAttribute(StringPiece name)
SetHasTextOrAttribute(w, name) ==
  IF name = <<>> THEN [w EXCEPT !.element[Len(w.element)].has_text = TRUE]
  ELSE [w EXCEPT !.element[Len(w.element)].has_attribute = TRUE]

\* The scalar between its quotes, which an attribute has and a text has not.
WriteQuoted(w, name, bytes) ==
  IF name # <<>> THEN WriteChar(WriteRawString(WriteChar(w, 34), bytes), 34)
  ELSE WriteRawString(w, bytes)

\* XmlObjectWriter* RenderString(StringPiece name, StringPiece value)
RenderString(w, name, value) ==
  WriteSuffix(SetHasTextOrAttribute(
    WriteQuoted(WritePrefix(w, name, TRUE), name, Escape(value)), name))

\* XmlObjectWriter* RenderSimple(StringPiece name, StringPiece value)
RenderSimple(w, name, value) ==
  WriteSuffix(SetHasTextOrAttribute(
    WriteQuoted(WritePrefix(w, name, TRUE), name, value), name))

\* The decimal digits of n >= 0.
RECURSIVE Digits(_)
Digits(n) ==
  IF n < 10 THEN <<48 + n>> ELSE Digits(n \div 10) \o <<48 + (n % 10)>>

\* StrCat(value) of an integer: a '-' for a negative one, and its digits.
StrCat(value) == IF value < 0 THEN <<45>> \o Digits(-value) ELSE Digits(value)

\* XmlObjectWriter* RenderBool(StringPiece name, bool value)
RenderBool(w, name, value) ==
  RenderSimple(w, name, IF value THEN Str(<<"t", "r", "u", "e">>)
                        ELSE Str(<<"f", "a", "l", "s", "e">>))

\* XmlObjectWriter* RenderInt32(StringPiece name, int32_t value)
RenderInt32(w, name, value) == RenderSimple(w, name, StrCat(value))

\* XmlObjectWriter* RenderInt64(StringPiece name, int64_t value)
RenderInt64(w, name, value) ==
  WriteSuffix(SetHasTextOrAttribute(
    WriteQuoted(WritePrefix(w, name, TRUE), name, StrCat(value)), name))

\* XmlObjectWriter* RenderUint64(StringPiece name, uint64_t value): the
\* quotes are written whatever the name.
RenderUint64(w, name, value) ==
  WriteSuffix(SetHasTextOrAttribute(
    WriteChar(WriteRawString(WriteChar(WritePrefix(w, name, TRUE), 34),
                             StrCat(value)), 34),
    name))

\* The call on the writer that event e stands for.
WriterCall(w, e) ==
  IF e.op = "StartObject" THEN StartObject(w, e.name)
  ELSE IF e.op = "EndObject" THEN EndObject(w)
  ELSE IF e.op = "StartList" THEN StartList(w, e.name)
  ELSE IF e.op = "EndList" THEN EndList(w)
  ELSE RenderString(w, e.name, e.value)

\* The outcomes of a read of the top of an empty std::stack.
UBOutcomes == {"crash", "garbage"}

(***************************************************************************)
(* ZeroCopyStreamByteSink (xml_util.cc) over the segmented output stream   *)
(* of xml_util_test.cc.  Memory is one array of bytes; a pointer is an     *)
(* index into it (0 is nullptr); a StringPiece is [data, size].            *)
(***************************************************************************)

\* The length of the array the segments lie in.
kOutputBufferLength == 10

\* memset(buffer, 0, sizeof(buffer)).
ZeroedBuffer == [i \in 1..kOutputBufferLength |-> 0]

\* The segments the test cuts the array into: one ends after every index in
\* cuts, the last one at the end of the array.
Segments(cuts) ==
  LET starts == {1} \cup {c + 1 : c \in cuts}
      ends == cuts \cup {kOutputBufferLength}
      start(i) == CHOOSE b \in starts : Cardinality({t \in starts : t < b}) = i - 1
      end(b) == CHOOSE e \in ends : e >= b /\ \A f \in ends : f >= b => e <= f
  IN  [i \in 1..Cardinality(starts) |->
         [data |-> start(i), size |-> end(start(i)) - start(i) + 1]]

NoSegment == [data |-> 0, size |-> 0]

\* The constructor: the segments reversed, so that the next one is the last.
SegmentedZeroCopyOutputStream(segments) ==
  [ segments_ |-> [i \in 1..Len(segments) |-> segments[Len(segments) + 1 - i]],
    last_segment_ |-> NoSegment,
    byte_count_ |-> 0 ]

\* Next: the result, the stream after the call, and the buffer handed out.
StreamNext(s) ==
  IF s.segments_ = <<>>
  THEN [ok |-> FALSE, stream |-> s, buffer |-> 0, length |-> 0]
  ELSE LET seg == Top(s.segments_)
       IN  [ ok |-> TRUE,
             stream |-> [ segments_ |-> Take(s.segments_, Len(s.segments_) - 1),
                          last_segment_ |-> seg,
                          byte_count_ |-> s.byte_count_ + seg.size ],
             buffer |-> seg.data,
             length |-> seg.size ]

\* BackUp: the last length bytes of the last segment are a segment again.
StreamBackUp(s, length) ==
  LET backup == s.last_segment_.size - length
  IN  [ segments_ |-> Append(s.segments_,
                             [ data |-> s.last_segment_.data + backup,
                               size |-> length ]),
        last_segment_ |-> [s.last_segment_ EXCEPT !.size = backup],
        byte_count_ |-> s.byte_count_ - length ]

\* The constructor of the sink: no buffer yet.
ZeroCopyStreamByteSink == [buffer_ |-> 0, buffer_size_ |-> 0]

\* memcpy(dest, src, n) in the memory mem.
memcpy(mem, dest, src, n) ==
  [i \in 1..Len(mem) |->
     IF i >= dest /\ i < dest + n THEN src[i - dest + 1] ELSE mem[i]]

\* Append, on st = [sink, stream, mem]: the loop copies what fits the rest
\* of the buffer and asks the stream for the next buffer, until the bytes
\* fit or the stream has no buffer left.
RECURSIVE ByteSinkAppendKeepingBytes(_, _)
ByteSinkAppendKeepingBytes(st, bytes) ==
  LET len == Len(bytes)
      size == st.sink.buffer_size_
  IN  IF len <= size
      THEN [st EXCEPT !.mem = memcpy(st.mem, st.sink.buffer_, bytes, len),
                      !.sink = [ buffer_ |-> st.sink.buffer_ + len,
                                 buffer_size_ |-> size - len ]]
      ELSE LET mem1 == IF size > 0
                       THEN memcpy(st.mem, st.sink.buffer_, bytes, size)
                       ELSE st.mem
               next == StreamNext(st.stream)
           IN  IF ~next.ok
               THEN [st EXCEPT !.mem = mem1, !.sink.buffer_size_ = 0]
               ELSE ByteSinkAppendKeepingBytes(
                      [ sink |-> [ buffer_ |-> next.buffer,
                                   buffer_size_ |-> next.length ],
                        stream |-> next.stream,
                        mem |-> mem1 ],
                      bytes)

RECURSIVE ByteSinkAppend(_, _)
ByteSinkAppend(st, bytes) ==
  LET len == Len(bytes)
      size == st.sink.buffer_size_
  IN  IF len <= size
      THEN [st EXCEPT !.mem = memcpy(st.mem, st.sink.buffer_, bytes, len),
                      !.sink = [ buffer_ |-> st.sink.buffer_ + len,
                                 buffer_size_ |-> size - len ]]
      ELSE LET mem1 == IF size > 0
                       THEN memcpy(st.mem, st.sink.buffer_, bytes, size)
                       ELSE st.mem
               next == StreamNext(st.stream)
           IN  IF ~next.ok
               THEN [st EXCEPT !.mem = mem1, !.sink.buffer_size_ = 0]
               ELSE ByteSinkAppend(
                      [ sink |-> [ buffer_ |-> next.buffer,
                                   buffer_size_ |-> next.length ],
                        stream |-> next.stream,
                        mem |-> mem1 ],
                      Drop(bytes, size))

\* The destructor hands the unused rest of the buffer back to the stream.
DestroyKeepingBuffer(st) == st

DestroyByteSink(st) ==
  IF st.sink.buffer_size_ > 0
  THEN [st EXCEPT !.stream = StreamBackUp(st.stream, st.sink.buffer_size_)]
  ELSE st

(***************************************************************************)
(* The state machine: one parser, fed a prefix of input chunk by chunk;    *)
(* in a round trip one writer first, whose output is the parser's input    *)
(***************************************************************************)
VARIABLES
  stack_, leftover_, chunk_storage_, p_, key_, key_storage_, finishing_,
  seen_non_whitespace_, parsed_storage_, string_open_, coerce_to_utf8_,
  recursion_depth_, max_recursion_depth_, tag_name_stack_,
  element_type_stack_,
  ow_,      \* the calls made on the ObjectWriter so far
  input,    \* the bytes the caller holds
  fed,      \* how many of them it has passed to Parse
  status,   \* the util::Status the last call returned
  phase,    \* "writing" (the writer is at work), "open", "aborted" (a
            \* Parse failed) or "finished" (FinishParse ran); of a byte
            \* sink "appending" or "destroyed"
  element_, stream_, indent_string_, tag_needs_closed_, start_element_,
  events,   \* the calls the caller makes on the XmlObjectWriter
  written,  \* how many of them it has made
  buffer,         \* the array the segments of the output stream lie in
  output_stream,  \* the SegmentedZeroCopyOutputStream
  byte_sink       \* the ZeroCopyStreamByteSink on it

parser_vars ==
  << stack_, leftover_, chunk_storage_, p_, key_, key_storage_, finishing_,
     seen_non_whitespace_, parsed_storage_, string_open_, coerce_to_utf8_,
     recursion_depth_, max_recursion_depth_, tag_name_stack_,
     element_type_stack_, ow_ >>

writer_vars ==
  << element_, stream_, indent_string_, tag_needs_closed_, start_element_,
     events, written >>

sink_vars == << buffer, output_stream, byte_sink >>

vars == << parser_vars, writer_vars, sink_vars, input, fed, status, phase >>

\* The parser object the variables hold, about to take a call in which
\* undefined behaviour has outcome ub.
Self(ub) ==
  [ NewParser(coerce_to_utf8_, max_recursion_depth_) EXCEPT
      !.stack = stack_, !.leftover = leftover_, !.chunk_storage = chunk_storage_,
      !.p = p_, !.key = key_, !.key_storage = key_storage_,
      !.finishing = finishing_, !.seen_non_whitespace = seen_non_whitespace_,
      !.parsed_storage = parsed_storage_, !.string_open = string_open_,
      !.recursion_depth = recursion_depth_,
      !.tag_name_stack = tag_name_stack_,
      !.element_type_stack = element_type_stack_, !.ow = ow_, !.ub = ub ]

\* The variables take the fields of r.
Becomes(r) ==
  /\ stack_' = r.stack
  /\ leftover_' = r.leftover
  /\ chunk_storage_' = r.chunk_storage
  /\ p_' = r.p
  /\ key_' = r.key
  /\ key_storage_' = r.key_storage
  /\ finishing_' = r.finishing
  /\ seen_non_whitespace_' = r.seen_non_whitespace
  /\ parsed_storage_' = r.parsed_storage
  /\ string_open_' = r.string_open
  /\ coerce_to_utf8_' = r.coerce_to_utf8
  /\ recursion_depth_' = r.recursion_depth
  /\ max_recursion_depth_' = r.max_recursion_depth
  /\ tag_name_stack_' = r.tag_name_stack
  /\ element_type_stack_' = r.element_type_stack
  /\ ow_' = r.ow

\* The parsers and inputs of the runs: every input under the default depth
\* limit, with and without coercion, and the inputs that nest elements also
\* under each small depth limit.
Configs ==
  { [input |-> i, coerce |-> c, max_depth |-> kDefaultMaxRecursionDepth] :
      i \in Inputs, c \in BOOLEAN }
  \cup
  { [input |-> i, coerce |-> FALSE, max_depth |-> d] :
      i \in NestInputs \cup WellFormedInputs \cup MismatchInputs,
      d \in 1..MaxDepthLimit }

\* The variables hold the parser r.
Holds(r) ==
  /\ stack_ = r.stack
  /\ leftover_ = r.leftover
  /\ chunk_storage_ = r.chunk_storage
  /\ p_ = r.p
  /\ key_ = r.key
  /\ key_storage_ = r.key_storage
  /\ finishing_ = r.finishing
  /\ seen_non_whitespace_ = r.seen_non_whitespace
  /\ parsed_storage_ = r.parsed_storage
  /\ string_open_ = r.string_open
  /\ coerce_to_utf8_ = r.coerce_to_utf8
  /\ recursion_depth_ = r.recursion_depth
  /\ max_recursion_depth_ = r.max_recursion_depth
  /\ tag_name_stack_ = r.tag_name_stack
  /\ element_type_stack_ = r.element_type_stack
  /\ ow_ = r.ow

\* The variables hold the writer w.
HoldsWriter(w) ==
  /\ element_ = w.element
  /\ stream_ = w.stream
  /\ indent_string_ = w.indent_string
  /\ tag_needs_closed_ = w.tag_needs_closed
  /\ start_element_ = w.start_element

\* The writer object the variables hold.
SelfWriter ==
  [ element |-> element_, stream |-> stream_, indent_string |-> indent_string_,
    tag_needs_closed |-> tag_needs_closed_, start_element |-> start_element_ ]

\* The variables take the fields of w.
BecomesWriter(w) ==
  /\ element_' = w.element
  /\ stream_' = w.stream
  /\ indent_string_' = w.indent_string
  /\ tag_needs_closed_' = w.tag_needs_closed
  /\ start_element_' = w.start_element

\* No byte sink is in use: a stream without segments, a sink without buffer.
NoSink ==
  /\ buffer = <<>>
  /\ output_stream = SegmentedZeroCopyOutputStream(<<>>)
  /\ byte_sink = ZeroCopyStreamByteSink

\* A parser is given an input the caller holds; the writer is not used.
Init ==
  /\ \E cfg \in Configs :
       /\ input = cfg.input
       /\ Holds(NewParser(cfg.coerce, cfg.max_depth))
  /\ fed = 0
  /\ status = OkStatus
  /\ phase = "open"
  /\ HoldsWriter(XmlObjectWriter(<<>>))
  /\ events = <<>>
  /\ written = 0
  /\ NoSink

\* The parsers a call may leave behind, r(ub) being the result of the call
\* under outcome ub of undefined behaviour: the outcome matters only to a
\* call that reaches undefined behaviour, which is one that crashes under
\* outcome "crash".
Outcomes(r(_)) ==
  IF r("crash").res = Crashed THEN { r(ub) : ub \in UBOutcomes }
  ELSE { r("crash") }

\* The caller passes the next n bytes to Parse.
ParseCall ==
  /\ phase = "open"
  /\ \E n \in 0..(Len(input) - fed) :
       LET Call(ub) == Parse(Self(ub), SubSeq(input, fed + 1, fed + n))
       IN  \E r \in Outcomes(Call) :
             /\ Becomes(r)
             /\ status' = r.res
             /\ fed' = fed + n
             /\ phase' = IF IsOk(r.res) THEN "open" ELSE "aborted"
  /\ UNCHANGED << input, writer_vars, sink_vars >>

\* The caller declares the bytes fed so far to be the whole input.
FinishCall ==
  /\ phase = "open"
  /\ LET Call(ub) == FinishParse(Self(ub))
     IN  \E r \in Outcomes(Call) :
           /\ Becomes(r)
           /\ status' = r.res
           /\ phase' = "finished"
  /\ UNCHANGED << input, fed, writer_vars, sink_vars >>

Next == ParseCall \/ FinishCall

Spec == Init /\ [][Next]_vars

\* The indent strings of the writers: none, and one space.
IndentStrings == {<<>>, <<32>>}

ValueX == Str(<<"x">>)

ValueY == Str(<<"y">>)

\* Event sequences a caller of an ObjectWriter makes for a message: one
\* root object; in an object named scalars, objects and lists and a text
\* with the empty name; in a list unnamed scalars and objects.
LegalEvents ==
  { <<StartObjectEv(<<>>), EndObjectEv>>,
    <<StartObjectEv(<<>>), RenderStringEv(NameB, ValueX),
      StartObjectEv(NameA), EndObjectEv, EndObjectEv>>,
    <<StartObjectEv(<<>>), RenderStringEv(<<>>, ValueX), EndObjectEv>>,
    <<StartObjectEv(<<>>), StartListEv(NameA), RenderStringEv(<<>>, ValueX),
      RenderStringEv(<<>>, ValueY), EndListEv, EndObjectEv>>,
    <<StartObjectEv(<<>>), StartListEv(NameA), StartObjectEv(<<>>),
      RenderStringEv(NameB, ValueX), EndObjectEv, EndListEv, EndObjectEv>>,
    <<StartObjectEv(<<>>), StartObjectEv(NameA), EndObjectEv,
      RenderStringEv(NameB, ValueX), EndObjectEv>> }

\* A round trip: a writer that is to take the calls of a legal event
\* sequence, and a parser that is to read what the writer wrote.
RoundTripInit ==
  /\ \E es \in LegalEvents, indent_string \in IndentStrings :
       /\ events = es
       /\ HoldsWriter(XmlObjectWriter(indent_string))
  /\ written = 0
  /\ Holds(NewParser(FALSE, kDefaultMaxRecursionDepth))
  /\ input = <<>>
  /\ fed = 0
  /\ status = OkStatus
  /\ phase = "writing"
  /\ NoSink

\* The caller makes its next call on the writer; after the last call the
\* bytes written are the input of the parser.
WriteCall ==
  /\ phase = "writing"
  /\ written < Len(events)
  /\ BecomesWriter(WriterCall(SelfWriter, events[written + 1]))
  /\ written' = written + 1
  /\ input' = stream_'
  /\ phase' = IF written + 1 = Len(events) THEN "open" ELSE "writing"
  /\ UNCHANGED << parser_vars, sink_vars, events, fed, status >>

RoundTripNext == WriteCall \/ ParseCall \/ FinishCall

RoundTripSpec == RoundTripInit /\ [][RoundTripNext]_vars

\* The number of calls a caller makes on a writer.
MaxCalls == 5

\* The indent strings of the writer tests: none, one space, two spaces.
WriterIndentStrings == IndentStrings \cup {<<32, 32>>}

\* The calls a caller can make on the writer w: any start or render, and
\* the end call of the element that is open.
NextCalls(w) ==
  { StartObjectEv(<<>>), StartObjectEv(NameA), StartListEv(NameA),
    StartListEv(NameB), RenderStringEv(<<>>, Str(<<"x">>)),
    RenderStringEv(NameB, Str(<<"x">>)) }
    \cup (IF element(w).is_xml_object THEN {EndObjectEv} ELSE {})
    \cup (IF element(w).is_xml_list THEN {EndListEv} ELSE {})

\* A writer on which no call has been made.
WriterInit ==
  /\ \E indent_string \in WriterIndentStrings :
       HoldsWriter(XmlObjectWriter(indent_string))
  /\ events = <<>>
  /\ written = 0
  /\ Holds(NewParser(FALSE, kDefaultMaxRecursionDepth))
  /\ input = <<>>
  /\ fed = 0
  /\ status = OkStatus
  /\ phase = "writing"
  /\ NoSink

\* The caller makes one more call on the writer, any that it can make.
CallWriter ==
  /\ phase = "writing"
  /\ written < MaxCalls
  /\ \E e \in NextCalls(SelfWriter) :
       /\ BecomesWriter(WriterCall(SelfWriter, e))
       /\ events' = Append(events, e)
  /\ written' = written + 1
  /\ input' = stream_'
  /\ UNCHANGED << parser_vars, sink_vars, fed, status, phase >>

WriterSpec == WriterInit /\ [][CallWriter]_vars

\* The number of calls a caller makes on a writer that renders scalars.
MaxRenderCalls == 3

\* The scalar types that are rendered.
RenderOps ==
  {"RenderString", "RenderBool", "RenderInt32", "RenderInt64", "RenderUint64"}

\* A value of the type that op renders.
ValueOf(op) ==
  CASE op = "RenderString" -> Str(<<"x">>)
    [] op = "RenderBool" -> TRUE
    [] op = "RenderInt32" -> -7
    [] op = "RenderInt64" -> -18
    [] op = "RenderUint64" -> 18

\* The call on the writer that event e stands for, a render of any type
\* among them.
ScalarCall(w, e) ==
  CASE e.op = "RenderBool" -> RenderBool(w, e.name, e.value)
    [] e.op = "RenderInt32" -> RenderInt32(w, e.name, e.value)
    [] e.op = "RenderInt64" -> RenderInt64(w, e.name, e.value)
    [] e.op = "RenderUint64" -> RenderUint64(w, e.name, e.value)
    [] OTHER -> WriterCall(w, e)

\* The calls a caller can make on the writer w: a start, a render of any
\* type with or without name, and the end call of the element that is open.
ScalarCalls(w) ==
  { StartObjectEv(<<>>), StartListEv(NameA) }
    \cup { [op |-> op, name |-> name, value |-> ValueOf(op)] :
             op \in RenderOps, name \in {<<>>, NameB} }
    \cup (IF element(w).is_xml_object THEN {EndObjectEv} ELSE {})
    \cup (IF element(w).is_xml_list THEN {EndListEv} ELSE {})

\* The caller makes one more call on the writer, a render of any type
\* among them.
CallScalar ==
  /\ phase = "writing"
  /\ written < MaxRenderCalls
  /\ \E e \in ScalarCalls(SelfWriter) :
       /\ BecomesWriter(ScalarCall(SelfWriter, e))
       /\ events' = Append(events, e)
  /\ written' = written + 1
  /\ input' = stream_'
  /\ UNCHANGED << parser_vars, sink_vars, fed, status, phase >>

RenderSpec == WriterInit /\ [][CallScalar]_vars

\* The data of the byte sink test: "0123456789A" and its prefixes.
InputData == << 48, 49, 50, 51, 52, 53, 54, 55, 56, 57, 65 >>

\* The state [sink, stream, mem] the variables hold.
SelfSink == [sink |-> byte_sink, stream |-> output_stream, mem |-> buffer]

BecomesSink(st) ==
  /\ byte_sink' = st.sink
  /\ output_stream' = st.stream
  /\ buffer' = st.mem

\* The test: the zeroed array cut into segments in any way, a stream over
\* them, a sink on the stream, and data to append.
ByteSinkInit ==
  /\ \E cuts \in SUBSET (1..(kOutputBufferLength - 1)),
        length \in 0..Len(InputData) :
       /\ output_stream = SegmentedZeroCopyOutputStream(Segments(cuts))
       /\ input = Take(InputData, length)
  /\ buffer = ZeroedBuffer
  /\ byte_sink = ZeroCopyStreamByteSink
  /\ fed = 0
  /\ status = OkStatus
  /\ phase = "appending"
  /\ Holds(NewParser(FALSE, kDefaultMaxRecursionDepth))
  /\ HoldsWriter(XmlObjectWriter(<<>>))
  /\ events = <<>>
  /\ written = 0

\* The caller appends the next n bytes of the data.
AppendCall ==
  /\ phase = "appending"
  /\ \E n \in 0..(Len(input) - fed) :
       /\ BecomesSink(ByteSinkAppend(SelfSink, SubSeq(input, fed + 1, fed + n)))
       /\ fed' = fed + n
  /\ UNCHANGED << parser_vars, writer_vars, input, status, phase >>

\* The sink goes out of scope.
DestroyCall ==
  /\ phase = "appending"
  /\ BecomesSink(DestroyByteSink(SelfSink))
  /\ phase' = "destroyed"
  /\ UNCHANGED << parser_vars, writer_vars, input, fed, status >>

ByteSinkNext == AppendCall \/ DestroyCall

ByteSinkSpec == ByteSinkInit /\ [][ByteSinkNext]_vars

\* The input of the run: the bytes passed to the parser.
FedInput == SubSeq(input, 1, fed)

TypeOK ==
  /\ phase \in {"writing", "open", "aborted", "finished", "appending",
                "destroyed"}
  /\ fed \in 0..Len(input)
  /\ status.code \in {"OK", "CANCELLED", "INVALID_ARGUMENT", "CRASH"}

\* The run ended: a Parse call failed or FinishParse returned.
Ended == phase \in {"aborted", "finished"}

\* FinishParse returned success.
Succeeded == phase = "finished" /\ IsOk(status)

\* RunTest with the input in one piece: Parse(xml), then FinishParse unless
\* Parse failed.
FinishIfOk(r) == IF IsOk(r.res) THEN FinishParse(r) ELSE r

RunWhole(xml, coerce, max_depth, ub) ==
  FinishIfOk(Parse([NewParser(coerce, max_depth) EXCEPT !.ub = ub], xml))

NonUtf8Error == InvalidArgumentError("Encountered non UTF-8 code points.")

TagNameNotMatch == InvalidArgumentError("Tag name not match.")

TooDeepError(tag_name) ==
  [code |-> "INVALID_ARGUMENT",
   msg |-> "Message too deep. Max recursion depth reached for tag",
   tag |-> tag_name]

(***************************************************************************)
(* Claims                                                                  *)
(***************************************************************************)

\* C1: however the input is cut into chunks, the calls made on the sink and
\* the status the run ends with are those of the run that passes the same
\* input to Parse in one piece and then calls FinishParse.
C1_Resumption ==
  Ended =>
    \E ub \in UBOutcomes :
      LET w == RunWhole(FedInput, coerce_to_utf8_, max_recursion_depth_, ub)
      IN  ow_ = w.ow /\ status = w.res

\* The number of start events of evs[1..i] minus the number of end events.
RECURSIVE OpenCount(_, _)
OpenCount(evs, i) ==
  IF i = 0 THEN 0
  ELSE OpenCount(evs, i - 1)
         + (IF evs[i].op \in {"StartObject", "StartList"} THEN 1
            ELSE IF evs[i].op \in {"EndObject", "EndList"} THEN -1 ELSE 0)

\* Every start event is answered by a later end event and no end event comes
\* without a start event (whatever the kinds of the two).
Paired(evs) ==
  /\ OpenCount(evs, Len(evs)) = 0
  /\ \A i \in 1..Len(evs) : OpenCount(evs, i) >= 0

\* C2: when every Parse call and FinishParse returned success, every start
\* event delivered to the sink has its end event.
C2_StartsArePaired == Succeeded => Paired(ow_)

NestDepth(xml) == CHOOSE k \in 1..MaxNest : xml = Nest(1, k)

NamedObjects ==
  { i \in 1..Len(element_type_stack_) :
      /\ element_type_stack_[i] = "OBJECT"
      /\ (i <= Len(tag_name_stack_) => tag_name_stack_[i].name # AnonymousName) }

\* C5: between calls, the recursion counter is the number of OBJECT entries
\* of the element-kind stack whose tag name is not "anonymous".
C5_DepthCountsNamedObjects ==
  phase = "open" => recursion_depth_ = Cardinality(NamedObjects)

\* C6: after a successful parse the recursion depth is 0.
C6_DepthZeroOnSuccess == Succeeded => recursion_depth_ = 0

\* The first tag of xml at or after index i: [close, name, next], a "<" or
\* "</" followed by a name; next = 0 when there is none.
RECURSIVE NextTag(_, _)
NextTag(xml, i) ==
  IF i > Len(xml) THEN [close |-> FALSE, name |-> <<>>, next |-> 0]
  ELSE IF xml[i] = 60 /\ i < Len(xml) /\ IsLetter(xml[i + 1])
    THEN LET n == NameLen(Drop(xml, i), 1)
         IN  [close |-> FALSE, name |-> SubSeq(xml, i + 1, i + n), next |-> i + n + 1]
  ELSE IF xml[i] = 60 /\ i + 1 < Len(xml) /\ xml[i + 1] = 47 /\ IsLetter(xml[i + 2])
    THEN LET n == NameLen(Drop(xml, i + 1), 1)
         IN  [close |-> TRUE, name |-> SubSeq(xml, i + 2, i + 1 + n), next |-> i + n + 2]
  ELSE NextTag(xml, i + 1)

\* Reading the tags of xml from index i with the names open of the open
\* elements: some close tag differs in name from the open tag it answers.
RECURSIVE ClosesWrongTag(_, _, _)
ClosesWrongTag(xml, i, open) ==
  LET t == NextTag(xml, i)
  IN  IF t.next = 0 THEN FALSE
      ELSE IF ~t.close THEN ClosesWrongTag(xml, t.next, Append(open, t.name))
      ELSE IF open = <<>> THEN FALSE
      ELSE IF t.name # Top(open) THEN TRUE
      ELSE ClosesWrongTag(xml, t.next, Pop(open))

\* C7: an input with a close tag whose name differs from the name of the
\* open tag it answers fails with "Tag name not match." (stated for the
\* inputs that hold nothing but tags and for the default depth limit, where
\* no other error can come first).
C7_MismatchIsReported ==
  (/\ Ended
   /\ input \in MismatchInputs
   /\ max_recursion_depth_ = kDefaultMaxRecursionDepth
   /\ ClosesWrongTag(FedInput, 1, <<>>))
    => status = TagNameNotMatch

\* C8 (as stated): without coercion, an input with invalid UTF-8 fails with
\* "Encountered non UTF-8 code points.".
C8_NonUtf8IsReported ==
  (Ended /\ ~coerce_to_utf8_ /\ ~IsStructurallyValidUTF8(FedInput))
    => status = NonUtf8Error

\* C8 (amended): without coercion, an input with invalid UTF-8 never parses
\* successfully: once every Parse call has returned success, FinishParse
\* fails with "Encountered non UTF-8 code points."; a Parse call may fail
\* before that with an error of the bytes that precede the invalid one.
C8_NonUtf8NeverParses ==
  (/\ Ended /\ ~coerce_to_utf8_ /\ ~IsStructurallyValidUTF8(FedInput))
    => /\ ~IsOk(status)
       /\ phase = "finished" => status = NonUtf8Error

\* FinishParse rejected invalid UTF-8 after the bytes before it were parsed.
C8_Witness ==
  /\ phase = "finished"
  /\ ~coerce_to_utf8_
  /\ ~IsStructurallyValidUTF8(FedInput)
  /\ status = NonUtf8Error
  /\ ow_ # <<>>

\* C9: no Parse or FinishParse call returns the cancelled status.
C9_CancelledNeverReturned == ~IsCancelled(status)

\* A Parse call returned success with the parser suspended inside a quoted
\* string.
C9_Witness == phase = "open" /\ IsOk(status) /\ string_open_ # NoQuote

\* xml without the occurrences of the byte string pat.
RECURSIVE Without(_, _)
Without(xml, pat) ==
  IF xml = <<>> THEN <<>>
  ELSE IF StartsWith(xml, pat) THEN Without(Drop(xml, Len(pat)), pat)
  ELSE <<xml[1]>> \o Without(Drop(xml, 1), pat)

StripMarkup(xml) == Without(Without(xml, Comment), Declaration)

\* C10: an input with a comment or a declaration, passed to the parser to its
\* last byte, ends as the input without it does: the same calls on the sink
\* and the same success or failure.
C10_MarkupIsIgnored ==
  (Ended /\ fed = Len(input) /\ StripMarkup(FedInput) # FedInput) =>
    \E ub \in UBOutcomes :
      LET w == RunWhole(StripMarkup(FedInput), coerce_to_utf8_,
                        max_recursion_depth_, ub)
      IN  ow_ = w.ow /\ IsOk(status) = IsOk(w.res)

\* The bytes the parser has read past: the input, less the bytes a Parse
\* call that returned success kept in leftover_ for the next call.
Consumed ==
  IF phase = "open" THEN SubSeq(FedInput, 1, fed - Len(leftover_)) ELSE FedInput

\* The inputs made of elements only, where every "<" starts a tag.
ElementInputs == NestInputs \cup WellFormedInputs \cup MismatchInputs

\* The parser has read Consumed, the bytes of an input made of elements,
\* without an error.
ReadWithoutError ==
  /\ input \in ElementInputs
  /\ (phase = "open" /\ Len(leftover_) <= fed) \/ Succeeded

\* The events of evs whose op is in ops.
EventsOf(evs, ops) == SelectSeq(evs, LAMBDA e : e.op \in ops)

\* The name without the list prefix.
Stripped(name) == IF StartsWith(name, ListPrefix) THEN Drop(name, 6) ELSE name

\* The start event the opening rule gives an open tag called name whose
\* parent is a list (parent_is_list) or not.
StartEventFor(name, parent_is_list) ==
  IF StartsWith(name, ListPrefix) THEN <<StartListEv(Drop(name, 6))>>
  ELSE IF name = AnonymousName THEN <<>>
  ELSE IF name = RootName \/ parent_is_list THEN <<StartObjectEv(<<>>)>>
  ELSE <<StartObjectEv(name)>>

\* The start events the opening rule gives the open tags of xml from index
\* i on, open being the names of the elements open at i.
RECURSIVE StartEvents(_, _, _)
StartEvents(xml, i, open) ==
  LET t == NextTag(xml, i)
  IN  IF t.next = 0 THEN <<>>
      ELSE IF t.close
        THEN StartEvents(xml, t.next, IF open = <<>> THEN open ELSE Pop(open))
      ELSE StartEventFor(t.name,
                         open # <<>> /\ StartsWith(Top(open), ListPrefix))
             \o StartEvents(xml, t.next, Append(open, t.name))

\* C11: the start events delivered are those the opening rule gives the open
\* tags read: start_list(rest) for "_list_" tags, none for "anonymous",
\* start_object("") for "root" and for the children of a list,
\* start_object(tag) for every other tag.
C11_OpeningEvents ==
  ReadWithoutError =>
    EventsOf(ow_, {"StartObject", "StartList"}) = StartEvents(Consumed, 1, <<>>)

\* A list was parsed whose children are a named element and an "anonymous"
\* one.
C11_Witness ==
  /\ Succeeded
  /\ EventsOf(ow_, {"StartObject", "StartList"})
       = <<StartListEv(NameA), StartObjectEv(<<>>)>>
  /\ Len(StartEvents(FedInput, 1, <<>>)) = 2

\* The end event the closing rule gives a close tag called name.
EndEventFor(name) ==
  IF StartsWith(name, ListPrefix) THEN <<EndListEv>>
  ELSE IF name = AnonymousName THEN <<>>
  ELSE <<EndObjectEv>>

\* The end events the closing rule gives the close tags of xml from index i
\* on.
RECURSIVE EndEvents(_, _)
EndEvents(xml, i) ==
  LET t == NextTag(xml, i)
  IN  IF t.next = 0 THEN <<>>
      ELSE IF t.close THEN EndEventFor(t.name) \o EndEvents(xml, t.next)
      ELSE EndEvents(xml, t.next)

\* The number of open tags of xml less the number of its close tags.
RECURSIVE OpenTags(_, _)
OpenTags(xml, i) ==
  LET t == NextTag(xml, i)
  IN  IF t.next = 0 THEN 0
      ELSE (IF t.close THEN -1 ELSE 1) + OpenTags(xml, t.next)

\* C12: the end events delivered are those the closing rule gives the close
\* tags read (end_list for "_list_" tags, none for "anonymous", end_object
\* for the others), and each close tag read took one entry off the tag
\* stack and one off the element-kind stack.
C12_ClosingEvents ==
  ReadWithoutError =>
    /\ EventsOf(ow_, {"EndObject", "EndList"}) = EndEvents(Consumed, 1)
    /\ Len(tag_name_stack_) = OpenTags(Consumed, 1)
    /\ Len(element_type_stack_) = OpenTags(Consumed, 1)

\* Inside a list, an element and an "anonymous" element were closed, and the
\* list is still open.
C12_Witness ==
  /\ phase = "open"
  /\ EventsOf(ow_, {"EndObject", "EndList"}) = <<EndObjectEv>>
  /\ Len(EndEvents(Consumed, 1)) = 1
  /\ OpenTags(Consumed, 1) = 1
  /\ Len(tag_name_stack_) = 1
  /\ \E i \in 1..Len(Consumed) :
       StartsWith(Drop(Consumed, i - 1), Close(AnonymousName))

\* C13: every start_list event delivered carries a name that is not empty.
C13_ListsAreNamed ==
  \A i \in 1..Len(ow_) : ow_[i].op = "StartList" => ow_[i].name # <<>>

InvalidText == InvalidArgumentError("Invalid text.")

\* The text node of the input, when the input is an element with a text
\* node of the set texts that was passed whole to the parser.
TextOfInput(texts) == CHOOSE t \in texts : input = TextElement(t)

\* The run ended with the whole input, an element with a text node of the
\* set texts, passed to the parser.
TextRunEnded(texts) ==
  /\ Ended
  /\ fed = Len(input)
  /\ \E t \in texts : input = TextElement(t)

\* C14: a text node with a predefined entity reference, followed by more
\* text or by the close tag, is accepted and delivered as one RenderString
\* event with an empty name.
C14_EntitiesAccepted ==
  TextRunEnded(EntityTexts) =>
    /\ Succeeded
    /\ ow_ = <<StartObjectEv(NameA),
               RenderStringEv(<<>>, TextOfInput(EntityTexts)), EndObjectEv>>

\* C15: a text node with an "&" that starts no predefined entity reference
\* fails with "Invalid text.", wherever the "&" is in the text.
C15_BadAmpersandRejected ==
  TextRunEnded(BadEntityTexts) => status = InvalidText

ParsingTerminated ==
  InvalidArgumentError("Parsing terminated before end of input.")

\* The bytes passed to the parser after the top-level element.
Trailing == Drop(FedInput, Len(PlainElement))

\* The run ended after the top-level element and some byte after it were
\* passed to the parser.
TrailRunEnded ==
  /\ Ended
  /\ input \in TrailInputs
  /\ fed > Len(PlainElement)

HasNonSpace(xml) == \E i \in 1..Len(xml) : ~ascii_isspace(xml[i])

ElementEvents == <<StartObjectEv(NameA), EndObjectEv>>

\* C16 (as stated): a top-level element followed by bytes that are not all
\* whitespace fails with "Parsing terminated before end of input." after
\* the events of the element; followed by whitespace alone it is accepted.
C16_TrailingBytesRejected ==
  TrailRunEnded =>
    /\ ow_ = ElementEvents
    /\ IF HasNonSpace(Trailing) THEN status = ParsingTerminated
       ELSE IsOk(status)

\* C16 (amended): the same, for bytes after the element that are
\* structurally valid UTF-8.
C16_ValidTrailingBytesRejected ==
  (TrailRunEnded /\ IsStructurallyValidUTF8(FedInput)) =>
    /\ ow_ = ElementEvents
    /\ IF HasNonSpace(Trailing) THEN status = ParsingTerminated
       ELSE IsOk(status)

\* A Parse call that was passed a byte after the element, in a chunk of its
\* own, failed after the events of the element.
C16_Witness ==
  /\ TrailRunEnded
  /\ phase = "aborted"
  /\ status = ParsingTerminated
  /\ ow_ = ElementEvents
  /\ Trailing = Str(<<"x">>)

\* The messages ReportUnknown is called with.
ExpectedMessages ==
  { "Expected an open tag.", "Expected a tag name.",
    "Expected a space or a close tag.", "Expected a begin key or a slash.",
    "Expected a equal mark.", "Expected a quote before attribute value.",
    "Expected a close tag.", "Expected a slash." }

\* The messages of the errors that say the input ended too early.
EndOfInputMessages ==
  { "Unexpected end of string. " \o m : m \in ExpectedMessages }
    \cup {"Closing quote expected in string."}

\* The index of the last ">" of xml, which in a well-formed input ends the
\* top-level element; 0 when there is none.
RECURSIVE LastGt(_, _)
LastGt(xml, i) == IF i = 0 \/ xml[i] = 62 THEN i ELSE LastGt(xml, i - 1)

\* xml ends inside a quoted string (for strings without escapes or quotes
\* of the other kind): it has an odd number of double quotes.
InString(xml) == Cardinality({ i \in 1..Len(xml) : xml[i] = 34 }) % 2 = 1

\* xml ends inside the name of a close tag: it ends with "</" and one or
\* more bytes of a name.
EndsInCloseName(xml) ==
  \E i \in 1..(Len(xml) - 2) :
    /\ xml[i] = 60
    /\ xml[i + 1] = 47
    /\ \A j \in (i + 2)..Len(xml) : IsAlphanumericOrHyphen(xml[j])

\* The input is well formed and the bytes passed to the parser stop before
\* the end of its top-level element; no depth limit is in the way.
EndsMidConstruct ==
  /\ input \in WellFormedInputs \cup NestInputs
  /\ max_recursion_depth_ = kDefaultMaxRecursionDepth
  /\ fed < LastGt(input, Len(input))

\* C17: when the input stops in the middle of a construct, every Parse call
\* returns success and keeps the pending state, and FinishParse returns an
\* error: "Closing quote expected in string." inside a quoted string, an
\* "Unexpected end of string." error elsewhere except inside the name of a
\* close tag (when the bytes passed are whole UTF-8 characters); and no
\* Parse call, on any input, fails with an error that says the input ended.
C17_SuspendThenPromote ==
  /\ EndsMidConstruct =>
       /\ phase # "aborted"
       /\ phase = "open" => IsOk(status) /\ stack_ # <<>>
       /\ phase = "finished" =>
            /\ status.code = "INVALID_ARGUMENT"
            /\ IsStructurallyValidUTF8(FedInput) =>
                 IF InString(FedInput)
                   THEN status.msg = "Closing quote expected in string."
                   ELSE ~EndsInCloseName(FedInput) =>
                          /\ status.msg \in EndOfInputMessages
                          /\ status.msg # "Closing quote expected in string."
  /\ phase = "aborted" => status.msg \notin EndOfInputMessages

\* Parse returned success on an input that stops inside a quoted string,
\* and FinishParse then reported the missing quote.
C17_Witness ==
  /\ EndsMidConstruct
  /\ phase = "finished"
  /\ InString(FedInput)
  /\ status.msg = "Closing quote expected in string."
  /\ ow_ = <<StartObjectEv(<<>>)>>

\* The UTF-8 bytes of a code point above U+FFFF.
Utf8Of(cp) ==
  <<240 + (cp \div 262144), 128 + ((cp \div 4096) % 64),
    128 + ((cp \div 64) % 64), 128 + (cp % 64)>>

\* The code point of the surrogate pair hi, lo.
PairCodePoint(hi, lo) == ((hi % 1024) * 1024 + (lo % 1024)) + 65536

\* A run on the whole input ended: a Parse call failed, after which the test
\* passes no more bytes, or all bytes were passed and FinishParse returned.
WholeRunEnded == phase = "aborted" \/ (phase = "finished" /\ fed = Len(input))

\* C18: in a quoted attribute value a \u high surrogate followed by a \u low
\* surrogate is delivered as the one code point
\* ((hi & 0x3FF) << 10 | (lo & 0x3FF)) + 0x10000; without coercion a high
\* surrogate that no \u escape follows fails with "Missing low surrogate."
\* and one followed by a \u escape that is no low surrogate fails with
\* "Invalid low surrogate.".
C18_SurrogatePairs ==
  WholeRunEnded =>
    /\ \A h \in HighSurrogates, l \in LowSurrogates :
         input = AttrElement(UEscape(h) \o UEscape(l)) =>
           /\ Succeeded
           /\ ow_ = <<StartObjectEv(NameA),
                      RenderStringEv(NameB, Utf8Of(PairCodePoint(h, l))),
                      EndObjectEv>>
    /\ (~coerce_to_utf8_ /\ input \in LoneHighInputs) =>
         status = InvalidArgumentError("Missing low surrogate.")
    /\ (~coerce_to_utf8_ /\ input \in BadLowInputs) =>
         status = InvalidArgumentError("Invalid low surrogate.")

\* \uD83D\uDC1D was delivered as the bytes F0 9F 90 9D of U+1F41D.
C18_Witness ==
  /\ Succeeded
  /\ input = AttrElement(UEscape(55357) \o UEscape(56349))
  /\ ow_ = <<StartObjectEv(NameA),
             RenderStringEv(NameB, <<240, 159, 144, 157>>), EndObjectEv>>

C20_RoundTrip ==
  (events # <<>> /\ WholeRunEnded) => (IsOk(status) /\ ow_ = events)

\* Event sequences in which no scalar with a name follows an object or a
\* list of the same object do come back.
C20_AttributesFirstRoundTrip ==
  (/\ events # <<>>
   /\ WholeRunEnded
   /\ \A i \in 2..Len(events) :
        (events[i].op = "RenderString" /\ events[i].name # <<>>) =>
          events[i - 1].op \in {"StartObject", "RenderString"})
    => (IsOk(status) /\ ow_ = events)

\* A list of two scalars came back from a chunked parse.
C20_Witness ==
  /\ Succeeded
  /\ Len(events) = 6
  /\ ow_ = events
  /\ stream_ = input

\* A step in which the caller made a call on the writer.
WriterCalled == written' = written + 1

\* The call made in the step.
TheCall == events'[written + 1]

\* The call of the step wrote bytes and nothing else.
Wrote(bytes) == stream_' = stream_ \o bytes

\* A line break at depth n: nothing without an indent string, else a newline
\* and n indent strings.
LineBreak(n) ==
  IF indent_string_ = <<>> THEN <<>>
  ELSE <<10>> \o Indentation(indent_string_, n)

OpenAnonymousTag == <<60>> \o AnonymousName \o <<62>>

CloseAnonymousTag == <<60, 47>> \o AnonymousName \o <<62>>

\* C21: while the writer's element is a list, a render with the empty name
\* writes <anonymous>VALUE</anonymous> (after the line break of its depth)
\* and StartObject("") writes a start tag with the name of the list.
C21_ListWrapping ==
  [][ (WriterCalled /\ element(SelfWriter).is_xml_list) =>
        /\ (TheCall.op = "RenderString" /\ TheCall.name = <<>>) =>
             Wrote(LineBreak(level(SelfWriter)) \o OpenAnonymousTag
                     \o TheCall.value \o CloseAnonymousTag)
        /\ TheCall = StartObjectEv(<<>>) =>
             Wrote(LineBreak(level(SelfWriter)) \o <<60>>
                     \o element(SelfWriter).name) ]_vars

\* The same for a list that is inside another element.
C21_InnerListWrapping ==
  [][ (WriterCalled /\ element(SelfWriter).is_xml_list /\ level(SelfWriter) > 1) =>
        /\ (TheCall.op = "RenderString" /\ TheCall.name = <<>>) =>
             Wrote(LineBreak(level(SelfWriter)) \o OpenAnonymousTag
                     \o TheCall.value \o CloseAnonymousTag)
        /\ TheCall = StartObjectEv(<<>>) =>
             Wrote(LineBreak(level(SelfWriter)) \o <<60>>
                     \o element(SelfWriter).name) ]_vars

\* The '>' that closes a start tag left open.
PendingClose == IF tag_needs_closed_ THEN <<62>> ELSE <<>>

\* The line breaks a call can write: none, or one at some depth.
LineBreaks == {<<>>} \cup { LineBreak(n) : n \in 0..MaxCalls }

\* The tag the claim names for StartObject(name) on the writer as it is.
NamedTag(name) ==
  IF name # <<>> THEN name
  ELSE IF Len(element_) = 1 THEN RootName
  ELSE Top(element_).name

\* C22: StartObject(name) writes '<' and the name, 'root' for the empty name
\* at the root and the name of the list for the empty name in a list, after
\* closing a start tag left open and breaking the line; the element it opens
\* keeps that name, and EndObject writes '</', the name of its element and '>'.
C22_StartTagNaming ==
  [][ WriterCalled =>
        /\ (/\ TheCall.op = "StartObject"
            /\ (TheCall.name # <<>> \/ Len(element_) = 1 \/ Top(element_).is_xml_list))
             => /\ \E b \in LineBreaks :
                     Wrote(PendingClose \o b \o <<60>> \o NamedTag(TheCall.name))
                /\ Top(element_').name = NamedTag(TheCall.name)
                /\ Len(element_') = Len(element_) + 1
        /\ (TheCall.op = "EndObject" /\ Top(element_).name # <<>>)
             => /\ \E b1, b2 \in LineBreaks :
                     Wrote(PendingClose \o b1 \o <<60, 47>> \o Top(element_).name
                             \o <<62>> \o b2)
                /\ element_' = Pop(element_) ]_vars

\* The root object, a list in it and an object in the list were opened and
\* the object was closed.
C22_Witness ==
  /\ events = <<StartObjectEv(<<>>), StartListEv(NameA), StartObjectEv(<<>>),
                EndObjectEv>>
  /\ indent_string_ = <<>>
  /\ stream_ = Lt(RootName) \o Gt \o Open(ListA) \o Lt(NameA) \o Gt \o Close(NameA)

\* ' KEY="VALUE"'
AttributeBytes(key, value) == <<32>> \o key \o <<61, 34>> \o value \o <<34>>

\* C23: RenderString in an object writes, for a key that is not empty,
\* ' KEY="VALUE"' into the start tag of the object, which is open and stays
\* open; for the empty key it closes the open start tag with one '>' and
\* writes the value as text.
C23_AttributeOrText ==
  [][ (WriterCalled /\ TheCall.op = "RenderString" /\ Top(element_).is_xml_object) =>
        /\ TheCall.name # <<>> =>
             /\ tag_needs_closed_
             /\ Wrote(AttributeBytes(TheCall.name, TheCall.value))
             /\ tag_needs_closed_'
        /\ TheCall.name = <<>> =>
             /\ tag_needs_closed_
             /\ Wrote(<<62>> \o TheCall.value)
             /\ ~tag_needs_closed_' ]_vars

\* The same for the calls made while the start tag of the object is open.
C23_InOpenStartTag ==
  [][ (/\ WriterCalled
       /\ TheCall.op = "RenderString"
       /\ Top(element_).is_xml_object
       /\ tag_needs_closed_) =>
        /\ TheCall.name # <<>> =>
             /\ Wrote(AttributeBytes(TheCall.name, TheCall.value))
             /\ tag_needs_closed_'
        /\ TheCall.name = <<>> =>
             /\ Wrote(<<62>> \o TheCall.value)
             /\ ~tag_needs_closed_' ]_vars

\* The bytes the call of the step appended to the stream.
Appended == SubSeq(stream_', Len(stream_) + 1, Len(stream_'))

HasNewline(bytes) == \E i \in 1..Len(bytes) : bytes[i] = 10

\* The elements that are open after the calls es, outermost first and below
\* them the document itself: whether each is a list and whether it has had
\* a child element (an object, a list or the anonymous element of a scalar
\* in a list).
RECURSIVE OpenAfter(_, _)
OpenAfter(es, open) ==
  IF es = <<>> THEN open
  ELSE LET e == es[1]
           n == Len(open)
           parent == [open EXCEPT ![n].child = TRUE]
       IN  IF e.op \in {"StartObject", "StartList"}
             THEN OpenAfter(Drop(es, 1),
                            Append(parent, [list |-> e.op = "StartList",
                                            child |-> FALSE]))
           ELSE IF e.op \in {"EndObject", "EndList"}
             THEN OpenAfter(Drop(es, 1), Pop(open))
           ELSE IF open[n].list THEN OpenAfter(Drop(es, 1), parent)
           ELSE OpenAfter(Drop(es, 1), open)

OpenNow == OpenAfter(events, <<[list |-> FALSE, child |-> FALSE]>>)

\* The element the calls made so far have left open.
Current == Top(OpenNow)

\* The depth of that element: 0 for the outermost element.
Depth == Len(OpenNow) - 2

\* bytes are pre and then a tag: a '<', bytes without a newline, and last.
TagAfter(bytes, pre, last) ==
  /\ StartsWith(bytes, pre)
  /\ LET tag == Drop(bytes, Len(pre))
     IN  /\ Len(tag) >= 2
         /\ tag[1] = 60
         /\ tag[Len(tag)] = last
         /\ ~HasNewline(SubSeq(tag, 1, Len(tag) - 1))

SinkUsed == phase \in {"appending", "destroyed"}

\* The bytes the stream's segments can take.
Capacity == kOutputBufferLength

\* The number of appended bytes the segments have room for.
Stored == IF fed <= Capacity THEN fed ELSE Capacity

\* C25: however the array is cut into segments and the data into Append
\* calls, the array holds, from its start and in order, the bytes appended
\* so far when they fit the capacity, and their first Capacity bytes when
\* they do not; no other byte of the array has been written.
C25_SinkOrdering ==
  SinkUsed =>
    /\ \A i \in 1..Stored : buffer[i] = input[i]
    /\ \A i \in (Stored + 1)..Capacity : buffer[i] = 0

\* More bytes than the capacity went through a sink whose stream handed
\* out at least three segments, the last of them shorter than the excess
\* call needed.
C25_Witness ==
  /\ phase = "appending"
  /\ fed = Capacity + 1
  /\ output_stream.segments_ = <<>>
  /\ output_stream.last_segment_.data > 4
  /\ output_stream.last_segment_.size = 3
  /\ byte_sink.buffer_size_ = 0
  /\ buffer[Capacity] = input[Capacity]

\* C26: once the sink is destroyed after appends that fit the capacity,
\* the stream's byte count is the number of bytes appended, and the array
\* past that count is as it was before the first append.
C26_BackUp ==
  (phase = "destroyed" /\ fed <= Capacity) =>
    /\ output_stream.byte_count_ = fed
    /\ \A i \in (fed + 1)..Capacity : buffer[i] = 0

\* A sink was destroyed in the middle of a buffer: the stream got the rest
\* of its last segment back.
C26_Witness ==
  /\ phase = "destroyed"
  /\ fed = 4
  /\ byte_sink.buffer_size_ = 2
  /\ output_stream.last_segment_ = [data |-> 3, size |-> 2]
  /\ Top(output_stream.segments_) = [data |-> 5, size |-> 2]


(***************************************************************************)
(* The stacks of the parser                                                *)
(***************************************************************************)

\* C27: between the calls on a parser, and after a call that returned an
\* error, tag_name_stack_ and element_type_stack_ have the same depth.
C27_StacksEqualDepth ==
  (phase \in {"open", "aborted", "finished"} /\ status # Crashed) =>
    Len(tag_name_stack_) = Len(element_type_stack_)

\* The same, of the parsers no call on which has failed.
C27_EqualDepthUntilError ==
  (phase \in {"open", "finished"} /\ IsOk(status)) =>
    Len(tag_name_stack_) = Len(element_type_stack_)


(***************************************************************************)
(* Comments                                                                *)
(***************************************************************************)

\* C28: a comment with a "-" inside that is not followed by "->" is read to
\* its "-->" and ignored: the element around it is parsed as without it.
C28_InteriorDash ==
  (WholeRunEnded /\ input \in DashCommentInputs) =>
    /\ IsOk(status)
    /\ ow_ = << StartObjectEv(NameA), EndObjectEv >>

\* The same of ParseComments alone, called where the comment's first "-"
\* is the next byte: it returns success and has read the whole comment.
C28_CommentBodyRead ==
  \A finishing \in BOOLEAN :
    LET s == [NewParser(FALSE, kDefaultMaxRecursionDepth) EXCEPT
                !.p = DashCommentBody \o Close(NameA),
                !.finishing = finishing]
        r == ParseComments(s)
    IN  IsOk(r.res) /\ r.p = Close(NameA)


(***************************************************************************)
(* The space after a tag name                                              *)
(***************************************************************************)

\* The bytes fed are a start tag's "<" and name, or these and an attribute,
\* and one space: the parser is in BEGIN_ELEMENT_MID when it comes to the
\* space, the last byte of the chunk.
TrailingSpacePrefixes ==
  { Lt(NameA) \o Sp, Lt(RootName) \o Sp,
    Lt(NameA) \o Sp \o Attr(NameB, Str(<<"x">>)) \o Sp }

AtTrailingSpace == phase = "open" /\ FedInput \in TrailingSpacePrefixes

SelfClosingStart ==
  IF Len(input) > 5
  THEN << StartObjectEv(NameA), RenderStringEv(NameB, Str(<<"x">>)) >>
  ELSE << StartObjectEv(NameA) >>

\* C30: a self-closing tag is read as an element opened and closed: once
\* its ">" is read, the element's start event has been followed by its end
\* event, and the tag stack and the recursion counter are as before the
\* element; a document that is one self-closing tag parses.
C30_SelfClosing ==
  (input \in SelfClosingInputs /\ fed = Len(input) /\
   phase \in {"open", "finished"}) =>
    /\ IsOk(status)
    /\ ow_ = Append(SelfClosingStart, EndObjectEv)
    /\ tag_name_stack_ = <<>>
    /\ recursion_depth_ = 0

\* What holds instead: the "/" is read and dropped, and the element is
\* open as after a start tag without it.
C30_SlashDropped ==
  (input \in SelfClosingInputs /\ fed = Len(input) /\ phase = "open") =>
    /\ ow_ = SelfClosingStart
    /\ tag_name_stack_ = << [name |-> NameA, is_list |-> FALSE] >>
    /\ recursion_depth_ = 1
    /\ Top(stack_) = "TEXT"


(***************************************************************************)
(* Reads of the top of a stack                                             *)
(***************************************************************************)

\* C31: no call reads stack_.top() or tag_name_stack_.top() of an empty
\* stack: no call ends in the crash that is one outcome of such a read.
C31_NoTopOfEmptyStack == status # Crashed


(***************************************************************************)
(* The nesting the sink sees                                               *)
(***************************************************************************)

\* The number of StartObject events of evs[1..i] minus the number of
\* EndObject events.
RECURSIVE OpenObjects(_, _)
OpenObjects(evs, i) ==
  IF i = 0 THEN 0
  ELSE OpenObjects(evs, i - 1)
         + (IF evs[i].op = "StartObject" THEN 1
            ELSE IF evs[i].op = "EndObject" THEN -1 ELSE 0)

\* C32: at every point of the event stream the number of StartObject events
\* not yet answered by an EndObject is at most max_recursion_depth_: the
\* element that is too deep is not delivered.
C32_SinkNestingBound ==
  \A i \in 1..Len(ow_) : OpenObjects(ow_, i) <= max_recursion_depth_

\* No more than one object beyond the maximum is delivered.
C32_OneBeyondAtMost ==
  \A i \in 1..Len(ow_) : OpenObjects(ow_, i) <= max_recursion_depth_ + 1


(***************************************************************************)
(* The kinds of start and end events                                       *)
(***************************************************************************)

\* Reading evs from event i with the kinds open of the open elements: every
\* end event is of the kind of the start event it closes.
RECURSIVE KindsMatch(_, _, _)
KindsMatch(evs, i, open) ==
  IF i > Len(evs) THEN TRUE
  ELSE IF evs[i].op = "StartObject"
    THEN KindsMatch(evs, i + 1, Append(open, "OBJECT"))
  ELSE IF evs[i].op = "StartList"
    THEN KindsMatch(evs, i + 1, Append(open, "LIST"))
  ELSE IF evs[i].op \in {"EndObject", "EndList"}
    THEN /\ open # <<>>
         /\ Top(open) = (IF evs[i].op = "EndList" THEN "LIST" ELSE "OBJECT")
         /\ KindsMatch(evs, i + 1, Pop(open))
  ELSE KindsMatch(evs, i + 1, open)

\* The inputs whose close tag has the open tag's name and not its list
\* prefix.
KindMismatchInputs ==
  { Open(ListA) \o Close(NameA), Open(NameA) \o Close(ListA) }

\* C33: an element opened with StartList is closed only by EndList, one
\* opened with StartObject only by EndObject; an input whose close tag
\* differs from its open tag in the list prefix does not parse.
C33_EndKindMatchesStart ==
  /\ KindsMatch(ow_, 1, <<>>)
  /\ (input \in KindMismatchInputs /\ phase = "finished") => ~IsOk(status)


(***************************************************************************)
(* What a successful parse has read                                        *)
(***************************************************************************)

\* C34: FinishParse returns success only when one top-level element was
\* opened and closed: the sink has received events, the first of them opens
\* an element and only the last of them closes it.
C34_SuccessHasOneElement ==
  Succeeded =>
    /\ ow_ # <<>>
    /\ \A i \in 1..(Len(ow_) - 1) : OpenCount(ow_, i) > 0
    /\ OpenCount(ow_, Len(ow_)) = 0


(***************************************************************************)
(* The order of the events of one element                                  *)
(***************************************************************************)

\* Reading evs from event i, open holding of each open element its kind and
\* how far it has come ("attributes", then "content", then "text"): a named
\* render comes while its element is at its attributes; an element starts
\* and a text is rendered only in an element that has rendered no text.  A
\* render without name in a list is the text of an anonymous child.
RECURSIVE InOrder(_, _, _)
InOrder(evs, i, open) ==
  IF i > Len(evs) THEN TRUE
  ELSE
    LET e == evs[i]
        at(stage) == [open EXCEPT ![Len(open)].stage = stage]
    IN  IF e.op \in {"StartObject", "StartList"}
          THEN /\ open # <<>> => Top(open).stage # "text"
               /\ InOrder(evs, i + 1,
                          Append(IF open = <<>> THEN open ELSE at("content"),
                                 [ list |-> e.op = "StartList",
                                   stage |-> "attributes" ]))
        ELSE IF e.op \in {"EndObject", "EndList"}
          THEN open # <<>> /\ InOrder(evs, i + 1, Pop(open))
        ELSE IF e.name # <<>>
          THEN /\ open # <<>>
               /\ Top(open).stage = "attributes"
               /\ InOrder(evs, i + 1, open)
        ELSE /\ open # <<>>
             /\ Top(open).stage # "text"
             /\ InOrder(evs, i + 1,
                        at(IF Top(open).list THEN "content" ELSE "text"))

ExpectedEndTagSlash == InvalidArgumentError("Expected an end tag slash.")

\* C35: an element delivers at most one text, as the last event before its
\* end event, and its attributes before its children and its text; text
\* followed by a child element is rejected with "Expected an end tag slash."
C35_TextIsLast ==
  /\ InOrder(ow_, 1, <<>>)
  /\ (input = TextThenChild /\ fed >= Len(Open(NameA)) + 3 /\ status # Crashed) =>
       /\ phase = "aborted"
       /\ status = ExpectedEndTagSlash
       /\ ow_ = << StartObjectEv(NameA), RenderStringEv(<<>>, Str(<<"x">>)) >>

\* An element with an attribute, a child and a text after the child was
\* read to its end.
C35_Witness ==
  /\ input = ChildThenText
  /\ Succeeded
  /\ ow_ = << StartObjectEv(NameA), RenderStringEv(NameB, Str(<<"x">>)),
              StartObjectEv(NameB), EndObjectEv,
              RenderStringEv(<<>>, Str(<<"y">>)), EndObjectEv >>

\* Text followed by a child element was rejected.
C35_RejectedWitness ==
  /\ input = TextThenChild
  /\ status = ExpectedEndTagSlash
  /\ Len(ow_) = 2


(***************************************************************************)
(* The empty chunk                                                         *)
(***************************************************************************)

\* The step is a Parse call with an empty chunk.
EmptyParse == phase = "open" /\ fed' = fed /\ phase' # "finished"

\* C36: Parse of an empty chunk returns success, delivers no event and
\* leaves the parse stack, the tag stack, the recursion counter and the
\* leftover bytes as they were.
C36_EmptyChunkIsNoOp ==
  [][ EmptyParse =>
        /\ IsOk(status')
        /\ ow_' = ow_
        /\ stack_' = stack_
        /\ tag_name_stack_' = tag_name_stack_
        /\ recursion_depth_' = recursion_depth_
        /\ leftover_' = leftover_ ]_vars


(***************************************************************************)
(* Termination of RunParser                                                *)
(***************************************************************************)

\* The parsers RunParser is entered with when Parse(xml) is called on s:
\* none when the chunk has no structurally valid prefix.
ParseEntries(s, xml) ==
  LET chunk == s.leftover \o xml
      n == UTF8SpnStructurallyValid(chunk)
  IN  IF n > 0 THEN { [s EXCEPT !.p = Take(chunk, n), !.finishing = FALSE] }
      ELSE {}

\* The parsers RunParser is entered with when FinishParse is called on s.
FinishEntries(s) ==
  IF s.stack = <<>> /\ s.leftover = <<>> /\ s.tag_name_stack = <<>> THEN {}
  ELSE IF IsStructurallyValidUTF8(s.leftover)
    THEN { [s EXCEPT !.p = s.leftover, !.finishing = TRUE] }
  ELSE IF s.coerce_to_utf8
    THEN { [s EXCEPT !.p = ReplaceInvalidCodePoints(
                               s.leftover, s.utf8_replacement_character),
                     !.finishing = TRUE] }
  ELSE {}

\* One iteration of RunParser's loop on s: the parser the handler of the
\* state on top of the stack leaves.
Iteration(s) ==
  LET type == Top(s.stack)
      s1 == IF s.string_open = NoQuote THEN GetNextTokenType(s, type)
            ELSE [s EXCEPT !.token = "BEGIN_STRING"]
  IN  Dispatch([s1 EXCEPT !.stack = Pop(@)], type, s1.token)

\* From s on, every iteration of RunParser's loop that returns ok leaves
\* fewer bytes at the cursor than it found.
RECURSIVE EveryIterationConsumes(_)
EveryIterationConsumes(s) ==
  \/ s.stack = <<>>
  \/ LET r == Iteration(s)
     IN  IsOk(r.res) => (Len(r.p) < Len(s.p) /\ EveryIterationConsumes(r))

\* The number of iterations RunParser's loop makes from s on.
RECURSIVE Iterations(_)
Iterations(s) ==
  IF s.stack = <<>> THEN 0
  ELSE LET r == Iteration(s)
       IN  IF IsOk(r.res) THEN 1 + Iterations(r) ELSE 1

\* The call RunParser is entered with e ends, each of its iterations that
\* returns ok having consumed a byte, after no more iterations than e has
\* bytes and one.
Terminates(e) ==
  /\ EveryIterationConsumes(e)
  /\ Iterations(e) <= Len(e.p) + 1

\* C37: every Parse and FinishParse call that can be made terminates: each
\* iteration of RunParser that returns ok consumes at least one byte, and
\* the number of iterations is bounded by the number of bytes the call has.
C37_IterationsConsume ==
  phase = "open" =>
    \A ub \in UBOutcomes :
      /\ \A n \in 0..(Len(input) - fed) :
           \A e \in ParseEntries(Self(ub), SubSeq(input, fed + 1, fed + n)) :
             Terminates(e)
      /\ \A e \in FinishEntries(Self(ub)) : Terminates(e)

\* A parser that holds leftover bytes and can be given a chunk that takes
\* RunParser through five iterations or more.
C37_Witness ==
  /\ phase = "open"
  /\ leftover_ # <<>>
  /\ \E e \in ParseEntries(Self("crash"), SubSeq(input, fed + 1, Len(input))) :
       Iterations(e) >= 5


(***************************************************************************)
(* The '>' of a start tag                                                  *)
(***************************************************************************)

\* The call of the step renders a text (a value without name) into an
\* object whose start tag is closed already.
TextAfterClosedTag ==
  /\ WriterCalled
  /\ TheCall.op = "RenderString"
  /\ TheCall.name = <<>>
  /\ Depth >= 0
  /\ ~Current.list
  /\ ~tag_needs_closed_

\* C38: a text rendered when no start tag is open writes the value and
\* nothing else: no second '>' for the start tag.
C38_NoSecondClose ==
  [][ TextAfterClosedTag => Appended = Escape(TheCall.value) ]_vars


(***************************************************************************)
(* The quotes of a scalar                                                  *)
(***************************************************************************)

\* The bytes the value of call e is written as.
ValueBytes(e) ==
  CASE e.op = "RenderString" -> Escape(e.value)
    [] e.op = "RenderBool" -> IF e.value THEN Str(<<"t", "r", "u", "e">>)
                              ELSE Str(<<"f", "a", "l", "s", "e">>)
    [] OTHER -> StrCat(e.value)

\* part is a run of consecutive bytes of bytes.
Contains(bytes, part) ==
  \E i \in 0..(Len(bytes) - Len(part)) :
    SubSeq(bytes, i + 1, i + Len(part)) = part

\* The call of the step, a render into an open element, wrote NAME="VALUE"
\* if it has a name and the value without quotes if it has none.
QuotedByName ==
  IF TheCall.name # <<>>
  THEN Contains(Appended, AttributeBytes(TheCall.name, ValueBytes(TheCall)))
  ELSE /\ Contains(Appended, ValueBytes(TheCall))
       /\ ~Contains(Appended, <<34>>)

\* C39: a render of any scalar type writes NAME="VALUE" when it has a name
\* and the value without quotes when it has none.
C39_UniformQuoting ==
  [][ (WriterCalled /\ Depth >= 0 /\ TheCall.op \in RenderOps)
        => QuotedByName ]_vars

\* The same of the types other than uint64.
C39_UniformButUint64 ==
  [][ (WriterCalled /\ Depth >= 0
         /\ TheCall.op \in RenderOps \ {"RenderUint64"})
        => QuotedByName ]_vars

====
